---- MODULE Spec2Model ----
(***************************************************************************)
(* Health-tracking app (React Native client + FastAPI backend).            *)
(*                                                                         *)
(* The module holds four specifications over one set of variables:         *)
(*   SpecAnalysis  backend: MLAnalysisService.run_full_analysis behind the  *)
(*                 POST /{user_id}/analyze endpoint, concurrent requests    *)
(*   SpecSync      client: useHealthKit.syncToSupabase, the HealthDashboard *)
(*                 auto-sync effect, the home screen's sync button, and the *)
(*                 backend's upsert into health_data                        *)
(*   SpecNav       client: RootLayoutNav's redirect effect                  *)
(*   SpecCorr      correlation ordering and strength buckets                *)
(* Numbers: metric values are small naturals, NULL marks a missing cell;    *)
(* correlation coefficients are integers in hundredths (-100..100).         *)
(***************************************************************************)
EXTENDS Integers, Sequences, FiniteSets, Bags, TLC

VARIABLES
    \* ---- backend store (Supabase tables)
    health_data,        \* set of rows [id, user_id, date, metrics]
    correlations_tbl,   \* bag of rows inserted by store_correlation
    anomalies_tbl,      \* bag of rows inserted by store_anomaly
    patterns_tbl,       \* bag of rows inserted by store_pattern
    \* ---- backend: one record per in-flight POST /analyze request
    run,
    \* ---- client: sync
    hook,               \* one useHealthKit instance per component using it
    dash,               \* HealthDashboard component state
    home,               \* HomeScreen sync handler state
    net,                \* per hook instance, its sync request in flight
    device,             \* the phone: platform, calendar day, AsyncStorage
    \* ---- client: navigation
    nav,
    \* ---- correlation results and what the screens show of them
    corr,
    \* ---- analyzers applied to a dataset of their own
    bench,
    \* ---- client: screens and the requests of the API module
    insights,           \* insights screen: filter, feed, requests in flight
    analytics,          \* analytics screen: time range, results, requests
    wire                \* the request the API module has issued last

vars == <<health_data, correlations_tbl, anomalies_tbl, patterns_tbl, run,
          hook, dash, home, net, device, nav, corr, bench, insights,
          analytics, wire>>

storeVars == <<health_data, correlations_tbl, anomalies_tbl, patterns_tbl>>
syncVars  == <<hook, dash, home, net, device>>
viewVars  == <<insights, analytics, wire>>

NULL == -1

(***************************************************************************)
(* Bounds and program constants                                            *)
(***************************************************************************)
MinRows == 30          \* len(df) < 30 in run_full_analysis
TopCorrelations == 10  \* correlations_df.head(10)
LastAnomalies == 5     \* anomalies.tail(5)
Slack == 1             \* row counts tried around MinRows: MinRows-Slack..MinRows+Slack
Today == 40            \* the backend's current day in SpecAnalysis

Users == {"u1", "u2"}
Runs == {"r1", "r2"}
Metrics == <<"sleep_hours", "step_count", "dietary_sugar", "dietary_water",
             "resting_heart_rate", "active_energy_burned", "height">>
MetricSet == {Metrics[i] : i \in 1..Len(Metrics)}
Analyzers == <<"correlations", "anomalies", "trends", "patterns">>
AnalyzerSet == {Analyzers[i] : i \in 1..Len(Analyzers)}

Min(a, b) == IF a < b THEN a ELSE b
Max(a, b) == IF a > b THEN a ELSE b
Abs(x) == IF x < 0 THEN -x ELSE x

(***************************************************************************)
(* Store collaborator: SupabaseService                                     *)
(***************************************************************************)
\* Synthetic health_data rows (scripts/load_test_data.py stands behind them):
\* one row per date, small values, some cells missing, one constant column,
\* one perfectly correlated pair and one outlier day.
SynthMetrics(d) ==
    [m \in MetricSet |->
        CASE m = "sleep_hours"          -> IF d % 7 = 0 THEN NULL ELSE d % 4
          [] m = "step_count"           -> (d * 3) % 4
          [] m = "dietary_sugar"        -> IF d % 5 = 0 THEN NULL ELSE 3 - ((d - 1) % 4)
          [] m = "dietary_water"        -> IF d = Today - 3 THEN 3 ELSE 1 - ((d % 9) \div 8)
          [] m = "resting_heart_rate"   -> (d \div 2) % 3
          [] m = "active_energy_burned" -> (d * 3) % 4
          [] OTHER                      -> 2]

\* id: the row's primary key (uuid_generate_v4), here a number never reused
SynthRow(u, d) ==
    [id |-> IF u = "u1" THEN d ELSE 100 + d, user_id |-> u, date |-> d,
     metrics |-> SynthMetrics(d)]

\* The rows of a set ordered by date ascending (.order("date", desc=False)).
RECURSIVE OrderByDate(_)
OrderByDate(S) ==
    IF S = {} THEN <<>>
    ELSE LET lo == CHOOSE r \in S : \A q \in S : r.date <= q.date
         IN <<lo>> \o OrderByDate(S \ {lo})

\* SupabaseService.get_health_data: the user's rows from start_date on, by date.
get_health_data(user_id, days) ==
    LET start_date == Today - days
    IN OrderByDate({r \in health_data : r.user_id = user_id /\ r.date >= start_date})

(***************************************************************************)
(* Arithmetic helpers                                                      *)
(***************************************************************************)
RECURSIVE SumSeq(_)
SumSeq(s) == IF s = <<>> THEN 0 ELSE Head(s) + SumSeq(Tail(s))

Column(df, m) == [i \in 1..Len(df) |-> df[i].metrics[m]]
NonNull(s) == SelectSeq(s, LAMBDA x : x # NULL)
Squares(s) == [i \in 1..Len(s) |-> s[i] * s[i]]

RECURSIVE Pow10(_)
Pow10(k) == IF k = 0 THEN 1 ELSE 10 * Pow10(k - 1)

\* floor(10^digits * n / d) for 0 <= n <= d, d > 0, by long division
RECURSIVE LongDiv(_, _, _)
LongDiv(n, d, digits) ==
    IF n >= d THEN Pow10(digits)
    ELSE IF digits = 0 THEN 0
    ELSE LET t == n * 10
         IN (t \div d) * Pow10(digits - 1) + LongDiv(t % d, d, digits - 1)

ISqrt(q) == CHOOSE k \in 0..100 : k * k <= q /\ (k + 1) * (k + 1) > q

(***************************************************************************)
(* Correlation analyzer (analyze_correlations)                             *)
(***************************************************************************)
MinOverlap == 2        \* fewer overlapping non-null samples: pair skipped
StrongAt == 70         \* |coefficient| >= 0.7, in hundredths
ModerateAt == 40       \* |coefficient| >= 0.4, in hundredths

\* strength label from |coefficient| (hundredths)
Strength(c) ==
    IF Abs(c) >= StrongAt THEN "strong"
    ELSE IF Abs(c) >= ModerateAt THEN "moderate"
    ELSE "weak"

Direction(c) == IF c > 0 THEN "positive" ELSE "negative"

\* unordered metric pairs in insertion order: (1,2), (1,3), ..., (n-1,n)
RECURSIVE PairsFrom(_, _)
PairsFrom(i, j) ==
    IF i >= Len(Metrics) THEN <<>>
    ELSE IF j > Len(Metrics) THEN PairsFrom(i + 1, i + 2)
    ELSE <<(<<Metrics[i], Metrics[j]>>)>> \o PairsFrom(i, j + 1)

MetricPairs == PairsFrom(1, 2)

\* rows where both metrics are present (pairwise-complete observations)
Overlap(df, a, b) ==
    SelectSeq(df, LAMBDA r : r.metrics[a] # NULL /\ r.metrics[b] # NULL)

Undefined == NULL - 100

\* n * sum(xy) - sum(x) * sum(y): n^2 times the covariance of the two columns
CoMoment(xs, ys) ==
    Len(xs) * SumSeq([i \in 1..Len(xs) |-> xs[i] * ys[i]]) - SumSeq(xs) * SumSeq(ys)

PearsonZero(df, a, b) ==
    LET rows == Overlap(df, a, b)
        xs == Column(rows, a)
        ys == Column(rows, b)
        cxy == CoMoment(xs, ys)
        vx == CoMoment(xs, xs)
        vy == CoMoment(ys, ys)
    IN IF Len(rows) < MinOverlap \/ vx = 0 \/ vy = 0 THEN 0
       ELSE LET mag == ISqrt(LongDiv(cxy * cxy, vx * vy, 4))
            IN IF cxy < 0 THEN -mag ELSE mag

\* Pearson coefficient in hundredths, truncated toward zero; Undefined when a
\* column is constant or too few rows hold both metrics
Pearson(df, a, b) ==
    LET rows == Overlap(df, a, b)
        xs == Column(rows, a)
        ys == Column(rows, b)
        cxy == CoMoment(xs, ys)
        vx == CoMoment(xs, xs)
        vy == CoMoment(ys, ys)
    IN IF Len(rows) < MinOverlap \/ vx = 0 \/ vy = 0 THEN Undefined
       ELSE LET mag == ISqrt(LongDiv(cxy * cxy, vx * vy, 4))
            IN IF cxy < 0 THEN -mag ELSE mag


CorrelationResult(a, b, c) ==
    [metric_a |-> a, metric_b |-> b, correlation |-> c,
     strength |-> Strength(c), direction |-> Direction(c)]

RECURSIVE InsertByAbsUnstable(_, _)
InsertByAbsUnstable(s, x) ==
    IF s = <<>> THEN <<x>>
    ELSE IF Abs(Head(s).correlation) > Abs(x.correlation)
         THEN <<Head(s)>> \o InsertByAbsUnstable(Tail(s), x)
         ELSE <<x>> \o s

\* stable insertion: x goes after every element at least as strong
RECURSIVE InsertByAbs(_, _)
InsertByAbs(s, x) ==
    IF s = <<>> THEN <<x>>
    ELSE IF Abs(Head(s).correlation) >= Abs(x.correlation)
         THEN <<Head(s)>> \o InsertByAbs(Tail(s), x)
         ELSE <<x>> \o s

RECURSIVE SortByAbs(_)
SortByAbs(s) ==
    IF s = <<>> THEN <<>>
    ELSE InsertByAbs(SortByAbs(SubSeq(s, 1, Len(s) - 1)), s[Len(s)])

\* the evaluated pairs in insertion order, undefined pairs left out
RECURSIVE EvaluatePairs(_, _)
EvaluatePairs(df, pairs) ==
    IF pairs = <<>> THEN <<>>
    ELSE LET a == Head(pairs)[1]
             b == Head(pairs)[2]
             c == Pearson(df, a, b)
         IN (IF c = Undefined THEN <<>> ELSE <<CorrelationResult(a, b, c)>>)
            \o EvaluatePairs(df, Tail(pairs))

analyze_correlations(df) == SortByAbs(EvaluatePairs(df, MetricPairs))

(***************************************************************************)
(* Anomaly detector (detect_anomalies): per-metric z-score flags           *)
(***************************************************************************)
\* |z| > 2.5 with the sample standard deviation, in integers:
\* 4 (n x - S)^2 (n - 1) > 25 n (n Q - S^2)
ZFlag(col, x) ==
    LET xs == NonNull(col)
        n == Len(xs)
        dev == n * x - SumSeq(xs)
    IN /\ x # NULL
       /\ n >= 2
       /\ 4 * dev * dev * (n - 1) > 25 * n * CoMoment(xs, xs)

FlaggedMetrics(df, i) ==
    {m \in MetricSet : ZFlag(Column(df, m), df[i].metrics[m])}

RandomState == 42      \* the fixed seed of the multivariate method

random_state_unset(call) == call

\* the seed the multivariate method starts from in the call-th run
random_state(call) == RandomState

\* The multivariate method, reduced to one random split: the seed picks a
\* feature, a missing cell is imputed with the column mean, and the day
\* farthest from the mean (the earliest of them) gets the lowest score.
Isolated(df, seed) ==
    LET m == Metrics[(seed % Len(Metrics)) + 1]
        xs == NonNull(Column(df, m))
        dev(i) == IF df[i].metrics[m] = NULL THEN 0
                  ELSE Abs(Len(xs) * df[i].metrics[m] - SumSeq(xs))
        far == {i \in 1..Len(df) : \A j \in 1..Len(df) : dev(j) <= dev(i)}
    IN  IF xs = <<>> THEN {}
        ELSE {CHOOSE i \in far : \A j \in far : i <= j}

\* one row per day of the window with its is_anomaly flag, by date ascending:
\* flagged by the multivariate score or by a metric's z-score
detect_anomalies_run(df, call) ==
    LET low == Isolated(df, random_state(call))
    IN [i \in 1..Len(df) |->
        [date |-> df[i].date,
         is_anomaly |-> (i \in low \/ FlaggedMetrics(df, i) # {}),
         primary_metric |-> IF Cardinality(FlaggedMetrics(df, i)) = 1
                            THEN CHOOSE m \in FlaggedMetrics(df, i) : TRUE
                            ELSE "multi_metric"]]

detect_anomalies(df) == detect_anomalies_run(df, 0)

\* the detector's contract: a window under the minimum size is answered with
\* "insufficient data", any other with the flagged days by date ascending
detect(df, call) ==
    IF Len(df) < MinRows
    THEN [status |-> "insufficient_data", flagged |-> <<>>]
    ELSE [status |-> "ok",
          flagged |-> SelectSeq(detect_anomalies_run(df, call),
                                LAMBDA r : r.is_anomaly)]

(***************************************************************************)
(* Trend analyzer (analyze_trends)                                         *)
(***************************************************************************)
TrendWindow == 30      \* first_30d_avg / last_30d_avg
StableBand == 5        \* |percent change| < 5: stable

HalfSizeUncapped(w) == w \div 2

HalfSize(w) == Min(TrendWindow, w \div 2)

\* df.head(n) and df.tail(n)
FirstHalf(df) == SubSeq(df, 1, HalfSize(Len(df)))
LastHalf(df) == SubSeq(df, Len(df) - HalfSize(Len(df)) + 1, Len(df))

\* the percent change with a zero first average reported as no change
TrendZeroAsStable(df, m) ==
    LET first == NonNull(Column(FirstHalf(df), m))
        last == NonNull(Column(LastHalf(df), m))
        sf == SumSeq(first)
        sl == SumSeq(last)
    IN IF first = <<>> \/ last = <<>> THEN <<>>
       ELSE LET num == 100 * (sl * Len(first) - sf * Len(last))
                den == sf * Len(last)
            IN <<[metric |-> m,
                  percent_change |-> IF den = 0 THEN 0 ELSE num \div den,
                  trend_direction |-> "stable"]>>

Trend(df, m) ==
    LET first == NonNull(Column(FirstHalf(df), m))
        last == NonNull(Column(LastHalf(df), m))
        sf == SumSeq(first)
        sl == SumSeq(last)
    IN IF first = <<>> \/ last = <<>> \/ sf = 0 THEN <<>>
       ELSE LET num == 100 * (sl * Len(first) - sf * Len(last))
                den == sf * Len(last)
                pct == IF num < 0 THEN -((-num) \div den) ELSE num \div den
            IN <<[metric |-> m, percent_change |-> pct,
                  trend_direction |-> IF Abs(pct) < StableBand THEN "stable"
                                      ELSE IF pct > 0 THEN "increasing"
                                      ELSE "decreasing"]>>

RECURSIVE TrendsFrom(_, _)
TrendsFrom(df, i) ==
    IF i > Len(Metrics) THEN <<>>
    ELSE Trend(df, Metrics[i]) \o TrendsFrom(df, i + 1)

analyze_trends(df) == TrendsFrom(df, 1)

(***************************************************************************)
(* Pattern detector (detect_sleep_sugar_pattern)                           *)
(***************************************************************************)
SleepThreshold == 2    \* "poor sleep" cut on the model's small scale
MinGroup == 5          \* both groups need at least this many pairs
LagDays == 1

\* the lag taken as "the next row" (shift by position) instead of the next date
LaggedOutcomesByRow(df, below) ==
    LET idx == {i \in 1..Len(df) :
                   /\ df[i].metrics["sleep_hours"] # NULL
                   /\ (df[i].metrics["sleep_hours"] < SleepThreshold) = below
                   /\ i + LagDays <= Len(df)
                   /\ df[i + LagDays].metrics["dietary_sugar"] # NULL}
    IN [i \in idx |-> df[i + LagDays].metrics["dietary_sugar"]]

\* outcome values on day d + lag for the days d of the window whose predictor
\* is present and (below = TRUE) under or (below = FALSE) at or over the cut
LaggedOutcomes(df, below) ==
    LET idx == {i \in 1..Len(df) :
                   /\ df[i].metrics["sleep_hours"] # NULL
                   /\ (df[i].metrics["sleep_hours"] < SleepThreshold) = below
                   /\ \E j \in 1..Len(df) :
                         /\ df[j].date = df[i].date + LagDays
                         /\ df[j].metrics["dietary_sugar"] # NULL}
    IN [i \in idx |->
          LET j == CHOOSE j \in 1..Len(df) : df[j].date = df[i].date + LagDays
          IN df[j].metrics["dietary_sugar"]]

RECURSIVE SumOver(_, _)
SumOver(f, S) ==
    IF S = {} THEN 0
    ELSE LET i == CHOOSE i \in S : TRUE IN f[i] + SumOver(f, S \ {i})

\* sum of squares of the values of f over S
RECURSIVE SumSqOver(_, _)
SumSqOver(f, S) ==
    IF S = {} THEN 0
    ELSE LET i == CHOOSE i \in S : TRUE IN f[i] * f[i] + SumSqOver(f, S \ {i})

Alpha == 50            \* significance level 0.05, in thousandths

\* the two-sample test (Welch's t), in integers: t^2 = num / den with
\* num = D^2 (n1-1)(n2-1), den = A1 n2^2 (n2-1) + A2 n1^2 (n1-1),
\* D = s1 n2 - s2 n1 and A = n q - s^2. The p-value, in thousandths, falls as
\* t^2 rises: 1 (nan) when the groups cannot be compared, 0 when they differ
\* without any spread, and otherwise a step function that crosses the
\* significance level at |t| = 2.
TTestPValue(lo, hi) ==
    LET n1 == Cardinality(DOMAIN lo)
        n2 == Cardinality(DOMAIN hi)
        s1 == SumOver(lo, DOMAIN lo)
        s2 == SumOver(hi, DOMAIN hi)
        A1 == n1 * SumSqOver(lo, DOMAIN lo) - s1 * s1
        A2 == n2 * SumSqOver(hi, DOMAIN hi) - s2 * s2
        D == s1 * n2 - s2 * n1
        num == D * D * (n1 - 1) * (n2 - 1)
        den == A1 * n2 * n2 * (n2 - 1) + A2 * n1 * n1 * (n1 - 1)
    IN IF n1 < 2 \/ n2 < 2 THEN 1000
       ELSE IF den = 0 THEN (IF D = 0 THEN 1000 ELSE 0)
       ELSE IF num < den THEN 320
       ELSE IF num < 4 * den THEN 100
       ELSE IF num < 9 * den THEN 30
       ELSE 5

\* the fields of the result other than the two flags
PatternFacts(df) ==
    LET lo == LaggedOutcomes(df, TRUE)
        hi == LaggedOutcomes(df, FALSE)
        nlo == Cardinality(DOMAIN lo)
        nhi == Cardinality(DOMAIN hi)
        slo == SumOver(lo, DOMAIN lo)
        shi == SumOver(hi, DOMAIN hi)
    IN [p_value |-> TTestPValue(lo, hi),
        sleep_threshold |-> SleepThreshold,
        n_below |-> nlo, n_above |-> nhi,
        percent_change |-> IF shi > 0 /\ nlo > 0
                           THEN (100 * (slo * nhi - shi * nlo)) \div (shi * nlo)
                           ELSE 0]

WithFlags(facts, detected, significant) ==
    [pattern_detected |-> detected,
     statistically_significant |-> significant,
     p_value |-> facts.p_value,
     sleep_threshold |-> facts.sleep_threshold,
     n_below |-> facts.n_below, n_above |-> facts.n_above,
     percent_change |-> facts.percent_change]

\* a detector that calls any change of over 10% a pattern
detect_pattern_by_change(df) ==
    LET f == PatternFacts(df)
    IN WithFlags(f, Abs(f.percent_change) > 10, f.p_value < Alpha)

detect_sleep_sugar_pattern(df) ==
    LET f == PatternFacts(df)
        significant == f.p_value < Alpha
        enough == f.n_below >= MinGroup /\ f.n_above >= MinGroup
    IN WithFlags(f, significant /\ enough, significant)

(***************************************************************************)
(* Analysis orchestrator: MLAnalysisService.run_full_analysis behind       *)
(* POST /{user_id}/analyze (run_analysis)                                  *)
(***************************************************************************)
DefaultDays == 90      \* days: int = 90
Unset == [set |-> FALSE, v |-> <<>>]
Value(x) == [set |-> TRUE, v |-> x]
DaysChoices == {MinRows - 2, DefaultDays}

EmptyResults == [a \in AnalyzerSet |-> Unset]

IdleRun == [pc |-> "idle", user_id |-> "u1", days |-> 0, df |-> <<>>,
            results |-> EmptyResults, invoked |-> {}, i |-> 0,
            outcome |-> "none", response |-> EmptyResults]

\* (variant) the trend analyzer looks at what the anomaly detector left behind
ApplyAnalyzerShared(name, df, results) ==
    [results EXCEPT ![name] =
        CASE name = "correlations" -> Value(analyze_correlations(df))
          [] name = "anomalies" ->
                Value(SelectSeq(detect_anomalies(df), LAMBDA r : r.is_anomaly))
          [] name = "trends" ->
                Value(IF results["anomalies"].set THEN <<>> ELSE analyze_trends(df))
          [] OTHER -> Value(<<detect_sleep_sugar_pattern(df)>>)]

\* what one analyzer adds to the results dict; it is handed the DataFrame only
ApplyAnalyzer(name, df, results) ==
    [results EXCEPT ![name] =
        CASE name = "correlations" -> Value(analyze_correlations(df))
          [] name = "anomalies" ->
                Value(SelectSeq(detect_anomalies(df), LAMBDA r : r.is_anomaly))
          [] name = "trends" -> Value(analyze_trends(df))
          [] OTHER -> Value(<<detect_sleep_sugar_pattern(df)>>)]

\* the request arrives; FastAPI starts the handler coroutine
Request(p) ==
    /\ run[p].pc = "idle"
    /\ \E u \in Users, days \in DaysChoices :
          run' = [run EXCEPT ![p] = [@ EXCEPT !.pc = "fetch", !.user_id = u,
                                               !.days = days]]
    /\ UNCHANGED <<storeVars, syncVars, nav, corr, bench, viewVars>>

\* df = await db_service.get_health_data(user_id, days)
FetchData(p) ==
    /\ run[p].pc = "fetch"
    /\ run' = [run EXCEPT ![p] = [@ EXCEPT !.pc = "check",
                  !.df = get_health_data(run[p].user_id, run[p].days)]]
    /\ UNCHANGED <<storeVars, syncVars, nav, corr, bench, viewVars>>

\* (variant) the row check off by one: len(df) < 29
CheckRowsOffByOne(p) ==
    /\ run[p].pc = "check"
    /\ run' = [run EXCEPT ![p] =
                  IF Len(run[p].df) < MinRows - 1
                  THEN [@ EXCEPT !.pc = "done", !.outcome = "insufficient_data"]
                  ELSE [@ EXCEPT !.pc = "correlations"]]
    /\ UNCHANGED <<storeVars, syncVars, nav, corr, bench, viewVars>>

\* if len(df) < 30: return {"error": "Insufficient data (need at least 30 days)"}
CheckRows(p) ==
    /\ run[p].pc = "check"
    /\ run' = [run EXCEPT ![p] =
                  IF Len(run[p].df) < MinRows
                  THEN [@ EXCEPT !.pc = "done", !.outcome = "insufficient_data"]
                  ELSE [@ EXCEPT !.pc = "correlations"]]
    /\ UNCHANGED <<storeVars, syncVars, nav, corr, bench, viewVars>>

\* One analyzer call. The call either returns or raises; nothing in
\* run_full_analysis catches, so a raise leaves the coroutine.
CallAnalyzer(p, name, next) ==
    /\ run[p].pc = name
    /\ \E raises \in BOOLEAN :
          run' = [run EXCEPT ![p] =
                     IF raises
                     THEN [@ EXCEPT !.pc = "raised",
                                    !.invoked = @ \cup {name}]
                     ELSE [@ EXCEPT !.pc = next, !.i = 1,
                                    !.invoked = @ \cup {name},
                                    !.results = ApplyAnalyzer(name, run[p].df, @)]]

Correlate(p) ==
    /\ CallAnalyzer(p, "correlations", "store_correlations")
    /\ UNCHANGED <<storeVars, syncVars, nav, corr, bench, viewVars>>

\* (variant) the insert is lost
store_correlation_lost(row) == correlations_tbl' = correlations_tbl

store_correlation(row) == correlations_tbl' = correlations_tbl (+) SetToBag({row})
store_anomaly(row) == anomalies_tbl' = anomalies_tbl (+) SetToBag({row})
store_pattern(row) == patterns_tbl' = patterns_tbl (+) SetToBag({row})

\* for _, corr in correlations_df.head(10).iterrows(): await store_correlation
StoreCorrelation(p) ==
    LET cs == run[p].results["correlations"].v
        k == run[p].i
    IN /\ run[p].pc = "store_correlations"
       /\ IF k <= Min(TopCorrelations, Len(cs))
          THEN /\ store_correlation(
                     [user_id |-> run[p].user_id, metric_a |-> cs[k].metric_a,
                      metric_b |-> cs[k].metric_b,
                      correlation_value |-> cs[k].correlation,
                      strength |-> cs[k].strength, direction |-> cs[k].direction,
                      sample_size |-> Len(run[p].df)])
               /\ run' = [run EXCEPT ![p].i = k + 1]
          ELSE /\ run' = [run EXCEPT ![p].pc = "anomalies"]
               /\ UNCHANGED correlations_tbl
       /\ UNCHANGED <<health_data, anomalies_tbl, patterns_tbl, syncVars, nav, corr, bench, viewVars>>

Detect(p) ==
    /\ CallAnalyzer(p, "anomalies", "store_anomalies")
    /\ UNCHANGED <<storeVars, syncVars, nav, corr, bench, viewVars>>

\* for _, anomaly_row in anomalies.tail(5).iterrows(): await store_anomaly
StoreAnomaly(p) ==
    LET as == run[p].results["anomalies"].v
        first == Max(1, Len(as) - LastAnomalies + 1)
        k == first + run[p].i - 1
    IN /\ run[p].pc = "store_anomalies"
       /\ IF k <= Len(as)
          THEN /\ store_anomaly([user_id |-> run[p].user_id, date |-> as[k].date,
                                 primary_metric |-> "multi_metric"])
               /\ run' = [run EXCEPT ![p].i = @ + 1]
          ELSE /\ run' = [run EXCEPT ![p].pc = "trends"]
               /\ UNCHANGED anomalies_tbl
       /\ UNCHANGED <<health_data, correlations_tbl, patterns_tbl, syncVars, nav, corr, bench, viewVars>>

Trends(p) ==
    /\ CallAnalyzer(p, "trends", "patterns")
    /\ UNCHANGED <<storeVars, syncVars, nav, corr, bench, viewVars>>

Patterns(p) ==
    /\ CallAnalyzer(p, "patterns", "store_pattern")
    /\ UNCHANGED <<storeVars, syncVars, nav, corr, bench, viewVars>>

\* if sleep_sugar_pattern['pattern_detected']: await store_pattern; return results
StorePattern(p) ==
    LET pat == run[p].results["patterns"].v[1]
    IN /\ run[p].pc = "store_pattern"
       /\ IF pat.pattern_detected
          THEN store_pattern([user_id |-> run[p].user_id,
                              pattern_type |-> "sleep_sugar", lag_days |-> LagDays,
                              percent_change |-> pat.percent_change,
                              threshold_value |-> pat.sleep_threshold,
                              confidence_level |->
                                  IF pat.statistically_significant THEN "high"
                                  ELSE "medium"])
          ELSE UNCHANGED patterns_tbl
       /\ run' = [run EXCEPT ![p] = [@ EXCEPT !.pc = "done", !.outcome = "ok",
                                              !.response = run[p].results]]
       /\ UNCHANGED <<health_data, correlations_tbl, anomalies_tbl, syncVars, nav, corr, bench, viewVars>>

\* run_analysis: except Exception as e: raise HTTPException(status_code=500)
Raised(p) ==
    /\ run[p].pc = "raised"
    /\ run' = [run EXCEPT ![p] = [@ EXCEPT !.pc = "done", !.outcome = "http_500"]]
    /\ UNCHANGED <<storeVars, syncVars, nav, corr, bench, viewVars>>

RunStep(p) ==
    \/ Request(p) \/ FetchData(p) \/ CheckRows(p) \/ Correlate(p)
    \/ StoreCorrelation(p) \/ Detect(p) \/ StoreAnomaly(p) \/ Trends(p)
    \/ Patterns(p) \/ StorePattern(p) \/ Raised(p)

\* the store before the requests: n daily rows of u1 up to Today, a few of u2
InitAnalysis ==
    /\ \E n \in {0} \cup ((MinRows - Slack)..(MinRows + Slack)) :
          health_data = {SynthRow("u1", d) : d \in (Today - n + 1)..Today}
                        \cup {SynthRow("u2", d) : d \in (Today - 2)..Today}
    /\ correlations_tbl = EmptyBag
    /\ anomalies_tbl = EmptyBag
    /\ patterns_tbl = EmptyBag
    /\ run = [p \in Runs |-> IdleRun]
    /\ hook = <<>> /\ dash = <<>> /\ home = <<>> /\ net = <<>> /\ device = <<>>
    /\ nav = <<>> /\ corr = <<>>
    /\ bench = <<>> /\ insights = <<>> /\ analytics = <<>> /\ wire = <<>>

NextAnalysis ==
    \E p \in Runs :
        \/ Request(p) \/ FetchData(p) \/ CheckRows(p) \/ Correlate(p)
        \/ StoreCorrelation(p) \/ Detect(p) \/ StoreAnomaly(p) \/ Trends(p)
        \/ Patterns(p) \/ StorePattern(p) \/ Raised(p)

SpecAnalysis == InitAnalysis /\ [][NextAnalysis]_vars

(***************************************************************************)
(* Client: the useHealthKit hook, one instance per component that calls it *)
(***************************************************************************)
Components == {"dash", "home"}
UserId == "u1"         \* the signed-in user

NoSleep == [hours |-> NULL, date |-> NULL]
NoData == [steps |-> NULL, sleep |-> NoSleep]
NoMetrics == [m \in MetricSet |-> NULL]

\* what the HealthKit queries of one fetchHealthData can return on a day
HealthKitReadings(day) ==
    {NoData,
     [steps |-> 3, sleep |-> [hours |-> 2, date |-> day - 1]],
     [steps |-> 3, sleep |-> [hours |-> 2, date |-> day]]}

NewHook ==
    [isLoading |-> TRUE, isAuthorized |-> FALSE, isSyncing |-> FALSE,
     syncError |-> FALSE, healthData |-> NoData,
     init |-> "authorizing", sync |-> "idle", fresh |-> NoData, today |-> 0,
     returned |-> FALSE]

\* requestAuthorization returning off iOS without stopping the spinner
requestAuthorizationKeepsLoading(platform) ==
    IF platform = "ios" THEN NewHook ELSE [NewHook EXCEPT !.init = "done"]

\* the mount effect's requestAuthorization up to its first await: off iOS it
\* has already returned false
requestAuthorization(platform) ==
    IF platform = "ios" THEN NewHook
    ELSE [NewHook EXCEPT !.isLoading = FALSE, !.init = "done"]

\* setHealthData((prev) => ({...prev, field: value})) for the fields read
MergeData(prev, fresh) ==
    [steps |-> IF fresh.steps # NULL THEN fresh.steps ELSE prev.steps,
     sleep |-> IF fresh.sleep # NoSleep THEN fresh.sleep ELSE prev.sleep]

\* convertToApiFormat: only the metrics present go into the request
convertToApiFormat(data, date) ==
    [date |-> date,
     metrics |-> [m \in MetricSet |->
        CASE m = "sleep_hours" -> data.sleep.hours
          [] m = "step_count" -> data.steps
          [] OTHER -> NULL]]

SleepOnly(data) ==
    [date |-> data.sleep.date,
     metrics |-> [m \in MetricSet |->
        IF m = "sleep_hours" THEN data.sleep.hours ELSE NULL]]

\* who calls syncToSupabase on each hook instance: HealthDashboard's effect,
\* or the home screen's sync button
Trigger(h) == IF h = "home" THEN "tap" ELSE "effect"

\* api.healthData.sync: POST /api/health-data/{userId}/sync with the body
Message(h, body) ==
    [trigger |-> Trigger(h), user_id |-> UserId, date |-> body.date,
     metrics |-> body.metrics, status |-> "sent"]

\* no request of this hook instance is in flight
NoRequest(h) ==
    [trigger |-> Trigger(h), user_id |-> UserId, date |-> 0,
     metrics |-> NoMetrics, status |-> "none"]

\* a re-render of HealthDashboard re-runs its auto-sync effect: syncToSupabase
\* is a new function on every render, and it is one of the effect's dependencies
Rerender(h, d) == IF h = "dash" THEN [d EXCEPT !.effectDue = TRUE] ELSE d

\* requestAuthorization returns; initHealthKit goes on to fetchHealthData
AuthorizeDone(h) ==
    /\ hook[h].init = "authorizing"
    /\ \E authorized \in BOOLEAN :
          hook' = [hook EXCEPT ![h] =
                     IF authorized
                     THEN [@ EXCEPT !.isAuthorized = TRUE, !.isLoading = TRUE,
                                    !.init = "fetching"]
                     ELSE [@ EXCEPT !.isLoading = FALSE, !.init = "done"]]
    /\ dash' = Rerender(h, dash)
    /\ UNCHANGED <<storeVars, run, home, net, device, nav, corr, bench, viewVars>>

\* fetchHealthData finishes: the readings are merged into healthData, or the
\* outer catch is taken; isLoading goes back to false either way
FetchFinished(rec, reading, throws) ==
    IF throws THEN [rec EXCEPT !.isLoading = FALSE]
    ELSE [rec EXCEPT !.healthData = MergeData(@, reading), !.isLoading = FALSE]

InitFetchDone(h) ==
    /\ hook[h].init = "fetching"
    /\ \E reading \in HealthKitReadings(device.day), throws \in BOOLEAN :
          hook' = [hook EXCEPT ![h] =
                     [FetchFinished(@, reading, throws) EXCEPT !.init = "done"]]
    /\ dash' = Rerender(h, dash)
    /\ UNCHANGED <<storeVars, run, home, net, device, nav, corr, bench, viewVars>>

(***************************************************************************)
(* Backend: POST /api/health-data/{user_id}/sync -> upsert_health_data     *)
(***************************************************************************)
NewId(table) ==
    LET ids == {0} \cup {r.id : r \in table}
    IN  1 + (CHOOSE x \in ids : \A y \in ids : y <= x)

upsert_health_data_blind(table, user_id, date, metrics) ==
    {table \cup {[id |-> NewId(table), user_id |-> user_id, date |-> date,
                  metrics |-> metrics]}}

\* The tables the upsert can leave behind. A new (user_id, date) is inserted.
\* An existing one is either updated in the columns the request carries, or
\* the insert is refused by UNIQUE(user_id, date) and the table is unchanged.
upsert_health_data(table, user_id, date, metrics) ==
    LET same == {r \in table : r.user_id = user_id /\ r.date = date}
    IN  IF same = {}
        THEN {table \cup {[id |-> NewId(table), user_id |-> user_id,
                           date |-> date, metrics |-> metrics]}}
        ELSE {table,
              (table \ same) \cup
                 {[r EXCEPT !.metrics = [m \in MetricSet |->
                       IF metrics[m] # NULL THEN metrics[m] ELSE @[m]]] :
                  r \in same}}

\* the endpoint handles one request: it stores and answers 200, or fails
ServerHandle(h) ==
    /\ net[h].status = "sent"
    /\ \/ /\ \E t \in upsert_health_data(health_data, net[h].user_id,
                                         net[h].date, net[h].metrics) :
                /\ health_data' = t
                /\ net' = [net EXCEPT ![h].status =
                              IF t = health_data THEN "failed" ELSE "ok"]
       \/ /\ net' = [net EXCEPT ![h].status = "failed"]
          /\ UNCHANGED health_data
    /\ UNCHANGED <<correlations_tbl, anomalies_tbl, patterns_tbl, run, hook,
                   dash, home, device, nav, corr, bench, viewVars>>

(***************************************************************************)
(* Client: syncToSupabase and its two callers                              *)
(***************************************************************************)
\* syncToSupabase up to its first await: the two early returns, else
\* setIsSyncing(true) and the start of fetchHealthData
SyncStart(rec) ==
    IF device.platform # "ios" \/ ~rec.isAuthorized
    THEN [rec EXCEPT !.syncError = TRUE]
    ELSE [rec EXCEPT !.isSyncing = TRUE, !.syncError = FALSE,
                     !.isLoading = TRUE, !.sync = "fetching"]

\* the guard of HealthDashboard's auto-sync effect
ShouldAutoSync ==
    /\ ~hook["dash"].isLoading
    /\ ~hook["dash"].isSyncing
    /\ ~dash.hasSyncedToday
    /\ (hook["dash"].healthData.steps # NULL
        \/ hook["dash"].healthData.sleep # NoSleep)

\* HealthDashboard's effect runs after a render
DashAutoSync ==
    /\ dash.effectDue
    /\ hook' = IF ShouldAutoSync
               THEN [hook EXCEPT !["dash"] = SyncStart(@)] ELSE hook
    /\ dash' = [dash EXCEPT !.effectDue = (hook' # hook),
                            !.sinceSuccess =
                                IF ShouldAutoSync /\ hook'["dash"].isSyncing /\ @ = "synced"
                                THEN "synced again" ELSE @]
    /\ UNCHANGED <<storeVars, run, home, net, device, nav, corr, bench, viewVars>>

\* handleSyncHealthData: the button is disabled while isSyncing; refetch()
\* comes first, and off iOS it returns at once. One run of the handler is
\* followed at a time.
UserTapsSync ==
    /\ hook["home"].sync = "idle"
    /\ ~hook["home"].isSyncing
    /\ home' = [home EXCEPT !.syncSuccess = FALSE]
    /\ hook' = [hook EXCEPT !["home"] =
                  IF device.platform # "ios" THEN SyncStart(@)
                  ELSE [@ EXCEPT !.isLoading = TRUE, !.sync = "refetching"]]
    /\ UNCHANGED <<storeVars, run, dash, net, device, nav, corr, bench, viewVars>>

\* refetch() returns and handleSyncHealthData calls syncToSupabase
HomeRefetchDone ==
    /\ hook["home"].sync = "refetching"
    /\ \E reading \in HealthKitReadings(device.day), throws \in BOOLEAN :
          hook' = [hook EXCEPT !["home"] =
                     SyncStart([FetchFinished(@, reading, throws)
                                   EXCEPT !.sync = "idle"])]
    /\ UNCHANGED <<storeVars, run, dash, home, net, device, nav, corr, bench, viewVars>>

\* fetchHealthData inside syncToSupabase returns: null ends the sync, fresh
\* data is converted and posted for today's date
SyncFetchDone(h) ==
    /\ hook[h].sync = "fetching"
    /\ \E reading \in HealthKitReadings(device.day), throws \in BOOLEAN :
          IF throws
          THEN /\ hook' = [hook EXCEPT ![h] =
                             [FetchFinished(@, reading, TRUE) EXCEPT
                                 !.syncError = TRUE, !.returned = FALSE,
                                 !.sync = "finally"]]
               /\ net' = net
          ELSE /\ net' = [net EXCEPT ![h] =
                           Message(h, convertToApiFormat(reading, device.day))]
               /\ hook' = [hook EXCEPT ![h] =
                             [FetchFinished(@, reading, FALSE) EXCEPT
                                 !.fresh = reading, !.today = device.day,
                                 !.sync = "awaitToday"]]
    /\ dash' = Rerender(h, dash)
    /\ UNCHANGED <<storeVars, run, home, device, nav, corr, bench, viewVars>>

\* last night's sleep goes out a second time under its own date
NeedsSleepSync(rec) ==
    /\ rec.fresh.sleep.hours # NULL
    /\ rec.fresh.sleep.hours # 0
    /\ rec.fresh.sleep.date # NULL
    /\ rec.fresh.sleep.date # rec.today

\* the response to today's POST arrives
SyncTodayDone(h) ==
    /\ hook[h].sync = "awaitToday"
    /\ net[h].status \in {"ok", "failed"}
    /\ IF net[h].status = "failed"
       THEN /\ hook' = [hook EXCEPT ![h] = [@ EXCEPT !.syncError = TRUE,
                            !.returned = FALSE, !.sync = "finally"]]
            /\ net' = [net EXCEPT ![h] = NoRequest(h)]
       ELSE IF NeedsSleepSync(hook[h])
       THEN /\ net' = [net EXCEPT ![h] = Message(h, SleepOnly(hook[h].fresh))]
            /\ hook' = [hook EXCEPT ![h] = [@ EXCEPT !.sync = "awaitSleep"]]
       ELSE /\ hook' = [hook EXCEPT ![h] = [@ EXCEPT !.returned = TRUE,
                            !.sync = "finally"]]
            /\ net' = [net EXCEPT ![h] = NoRequest(h)]
    /\ dash' = IF hook'[h].syncError # hook[h].syncError
               THEN Rerender(h, dash) ELSE dash
    /\ UNCHANGED <<storeVars, run, home, device, nav, corr, bench, viewVars>>

\* the response to the sleep-only POST arrives
SyncSleepDone(h) ==
    /\ hook[h].sync = "awaitSleep"
    /\ net[h].status \in {"ok", "failed"}
    /\ net' = [net EXCEPT ![h] = NoRequest(h)]
    /\ hook' = [hook EXCEPT ![h] =
                  IF net[h].status = "failed"
                  THEN [@ EXCEPT !.syncError = TRUE, !.returned = FALSE,
                                 !.sync = "finally"]
                  ELSE [@ EXCEPT !.returned = TRUE, !.sync = "finally"]]
    /\ dash' = IF hook'[h].syncError # hook[h].syncError
               THEN Rerender(h, dash) ELSE dash
    /\ UNCHANGED <<storeVars, run, home, device, nav, corr, bench, viewVars>>

\* finally { setIsSyncing(false) }; the promise resolves to the caller
SyncFinally(h) ==
    /\ hook[h].sync = "finally"
    /\ hook' = [hook EXCEPT ![h] =
                  [@ EXCEPT !.isSyncing = FALSE, !.sync = "idle",
                            !.fresh = NoData, !.today = 0,
                            !.returned = FALSE]]
    /\ dash' = IF h = "dash"
               THEN [dash EXCEPT !.effectDue = TRUE,
                                 !.pendingSuccess = @ \/ hook[h].returned]
               ELSE dash
    /\ home' = IF h = "home"
               THEN [home EXCEPT !.pendingSuccess = @ \/ hook[h].returned]
               ELSE home
    /\ UNCHANGED <<storeVars, run, net, device, nav, corr, bench, viewVars>>

\* the effect's continuation after await syncToSupabase: setHasSyncedToday.
\* sinceSuccess keeps what has happened on this day since the success was
\* recorded: nothing yet, or an automatic sync started again.
DashContinue ==
    /\ dash.pendingSuccess
    /\ dash' = [dash EXCEPT !.pendingSuccess = FALSE, !.hasSyncedToday = TRUE,
                            !.effectDue = TRUE, !.sinceSuccess = "synced"]
    /\ UNCHANGED <<storeVars, run, hook, home, net, device, nav, corr, bench, viewVars>>

\* handleSyncHealthData's continuation: setSyncSuccess(true)
HomeContinue ==
    /\ home.pendingSuccess
    /\ home' = [home EXCEPT !.pendingSuccess = FALSE, !.syncSuccess = TRUE]
    /\ UNCHANGED <<storeVars, run, hook, dash, net, device, nav, corr, bench, viewVars>>

\* checkNewDay, on mount and every minute: acts when the stored date differs
CheckNewDay ==
    /\ device.lastHealthSyncDate # device.day
    /\ dash' = [dash EXCEPT !.hasSyncedToday = FALSE,
                            !.effectDue = @ \/ dash.hasSyncedToday]
    /\ device' = [device EXCEPT !.lastHealthSyncDate = device.day]
    /\ UNCHANGED <<storeVars, run, hook, home, net, nav, corr, bench, viewVars>>

\* The state after both components have mounted. The calendar day stays the
\* same throughout a behaviour of this specification.
InitSync ==
    /\ health_data = {SynthRow(UserId, Today - 1), SynthRow("u2", Today)}
    /\ correlations_tbl = EmptyBag /\ anomalies_tbl = EmptyBag
    /\ patterns_tbl = EmptyBag
    /\ run = [p \in Runs |-> IdleRun]
    /\ \E pl \in {"ios", "android"} :
          /\ device = [platform |-> pl, day |-> Today,
                       lastHealthSyncDate |-> NULL]
          /\ hook = [h \in Components |-> requestAuthorization(pl)]
    /\ dash = [hasSyncedToday |-> FALSE, effectDue |-> TRUE,
               pendingSuccess |-> FALSE, sinceSuccess |-> "no success"]
    /\ home = [syncSuccess |-> FALSE, pendingSuccess |-> FALSE]
    /\ net = [h \in Components |-> NoRequest(h)]
    /\ nav = <<>> /\ corr = <<>>
    /\ bench = <<>> /\ insights = <<>> /\ analytics = <<>> /\ wire = <<>>

NextSync ==
    \/ \E h \in Components :
          \/ AuthorizeDone(h)
          \/ InitFetchDone(h)
          \/ SyncFetchDone(h)
          \/ SyncTodayDone(h)
          \/ SyncSleepDone(h)
          \/ SyncFinally(h)
    \/ DashAutoSync
    \/ UserTapsSync
    \/ HomeRefetchDone
    \/ DashContinue
    \/ HomeContinue
    \/ CheckNewDay
    \/ \E h \in Components : ServerHandle(h)

SpecSync == InitSync /\ [][NextSync]_vars

(***************************************************************************)
(* Claims about the analysis orchestrator (SpecAnalysis)                   *)
(***************************************************************************)
Checked(p) == run[p].pc \notin {"idle", "fetch", "check"}

\* C1: a window of fewer than 30 rows ends the run with the insufficient-data
\* outcome and no analyzer is ever invoked for it; an analyzer is invoked only
\* after the row check has passed.
C1_InsufficientDataInvokesNoAnalyzer ==
    \A p \in Runs :
        /\ run[p].invoked # {} => Checked(p) /\ Len(run[p].df) >= MinRows
        /\ Checked(p) /\ Len(run[p].df) < MinRows =>
              /\ run[p].pc = "done"
              /\ run[p].outcome = "insufficient_data"
              /\ run[p].invoked = {}

C1_Witness ==
    \E p \in Runs :
        /\ run[p].pc = "done"
        /\ run[p].outcome = "insufficient_data"
        /\ Len(run[p].df) = MinRows - 1
        /\ \E q \in Runs : run[q].invoked # {}

\* C2: when one analyzer fails, the caller still receives a bundle with the
\* other three analyzers' results; only insufficient data is reported as a
\* failure.
C2_PartialResultsReturned ==
    \A p \in Runs :
        run[p].pc = "done" /\ Len(run[p].df) >= MinRows =>
            /\ run[p].outcome = "ok"
            /\ Cardinality({a \in AnalyzerSet : run[p].response[a].set}) >= 3

\* C6 (as stated): a run leaves the whole store as it found it.
C6_RunLeavesStoreUnchanged ==
    [][(\E p \in Runs : RunStep(p)) => UNCHANGED storeVars]_vars

\* rows a run has inserted so far, read off its position
CorrelationsWritten(p) ==
    LET cs == run[p].results["correlations"]
    IN IF ~cs.set THEN 0
       ELSE IF run[p].pc = "store_correlations" THEN run[p].i - 1
       ELSE Min(TopCorrelations, Len(cs.v))

AnomaliesWritten(p) ==
    LET as == run[p].results["anomalies"]
    IN IF ~as.set THEN 0
       ELSE IF run[p].pc = "store_anomalies" THEN run[p].i - 1
       ELSE Min(LastAnomalies, Len(as.v))

PatternsWritten(p) ==
    IF run[p].outcome = "ok" /\ run[p].response["patterns"].v[1].pattern_detected
    THEN 1 ELSE 0

RECURSIVE SumRuns(_, _)
SumRuns(F(_), S) ==
    IF S = {} THEN 0
    ELSE LET p == CHOOSE p \in S : TRUE IN F(p) + SumRuns(F, S \ {p})

\* C6 (amended): a run never changes health_data, and a run that ends in
\* insufficient data writes nothing; a run that passes the row check inserts
\* its first 10 correlations, its last 5 flagged anomalies and the pattern when
\* detected, so the result tables hold exactly those rows.
C6_RunWritesResultsNotDataset ==
    /\ [][health_data' = health_data]_vars
    /\ [](/\ BagCardinality(correlations_tbl) = SumRuns(CorrelationsWritten, Runs)
          /\ BagCardinality(anomalies_tbl) = SumRuns(AnomaliesWritten, Runs)
          /\ BagCardinality(patterns_tbl) = SumRuns(PatternsWritten, Runs)
          /\ \A p \in Runs : run[p].outcome = "insufficient_data" =>
                CorrelationsWritten(p) + AnomaliesWritten(p) + PatternsWritten(p) = 0)

C6_Witness ==
    \E p \in Runs :
        /\ run[p].outcome = "ok"
        /\ Len(run[p].response["correlations"].v) > TopCorrelations
        /\ BagCardinality(correlations_tbl) >= TopCorrelations
        /\ BagCardinality(anomalies_tbl) >= 1
        /\ BagCardinality(patterns_tbl) >= 1
        /\ \E q \in Runs : run[q].outcome = "insufficient_data"

Reverse(s) == [i \in 1..Len(s) |-> s[Len(s) + 1 - i]]

\* the results dict after running the analyzers of `order` one after another
RECURSIVE FoldOrder(_, _)
FoldOrder(order, df) ==
    IF order = <<>> THEN EmptyResults
    ELSE ApplyAnalyzer(order[Len(order)], df,
                       FoldOrder(SubSeq(order, 1, Len(order) - 1), df))

Rotate(s, k) == [i \in 1..Len(s) |-> s[((i + k - 1) % Len(s)) + 1]]

\* the reverse of the code's order (every pair of analyzers swapped) and its
\* rotations (every analyzer first, every analyzer last)
OrdersTried ==
    {Reverse(Analyzers)} \cup {Rotate(Analyzers, k) : k \in 1..(Len(Analyzers) - 1)}

C3_NoMetricLeavesDevice ==
    \A h \in Components :
        net[h].status # "none" => \A m \in MetricSet : net[h].metrics[m] = NULL

\* C4: a sync request is issued only when the user chose to sync: every
\* request in flight was started by a tap on the sync button.
C4_SyncOnlyOnUserAction ==
    \A h \in Components : net[h].status # "none" => net[h].trigger = "tap"

\* C5: after any sequence of sync requests the health-data store holds at
\* most one row per (user, date).
C5_OneRowPerUserAndDate ==
    \A r1, r2 \in health_data :
        (r1.user_id = r2.user_id /\ r1.date = r2.date) => r1 = r2

\* Two syncs overlap: the dashboard's has stored today's row and the sleep of
\* the previous date over the row that was already there, while the button's
\* request for the same day has been stored over today's row as well.
C5_Witness ==
    /\ hook["dash"].sync = "awaitSleep" /\ net["dash"].status = "ok"
    /\ hook["home"].sync = "awaitToday" /\ net["home"].status = "ok"
    /\ net["home"].date = hook["dash"].today
    /\ net["dash"].date = hook["dash"].today - 1
    /\ \E r \in health_data :
          /\ r.user_id = UserId /\ r.date = net["dash"].date
          /\ r.metrics["sleep_hours"] = net["dash"].metrics["sleep_hours"]
          /\ r.metrics # SynthMetrics(r.date)
    /\ \E r \in health_data : r.user_id = UserId /\ r.date = net["home"].date

(***************************************************************************)
(* Client: RootLayoutNav, the redirect effect under the AuthProvider       *)
(***************************************************************************)
MaxAuthEvents == 2     \* sign-ins and sign-outs after the first auth check
MaxNavigations == 2    \* route changes made by the user

TabsGroup == "(tabs)"
Routes ==
    {<<TabsGroup>>, <<TabsGroup, "dashboard">>, <<TabsGroup, "insights">>,
     <<"login">>, <<"modal">>, <<"screens", "HomeScreen">>}

inAuthGroup(segments) == segments[1] = TabsGroup

\* what RootLayoutNav renders
Screen(n) == IF n.loading THEN "LoadingScreen" ELSE "Stack"

redirectEffectEager(n) ==
    IF ~n.session /\ inAuthGroup(n.segments)
    THEN [n EXCEPT !.segments = <<"login">>, !.replaced = @ + 1]
    ELSE IF n.session /\ ~inAuthGroup(n.segments)
    THEN [n EXCEPT !.segments = <<TabsGroup>>, !.replaced = @ + 1]
    ELSE [n EXCEPT !.effectDue = FALSE]

\* the body of the effect; router.replace changes segments, a dependency of
\* the effect, so the effect is due again after a redirect
redirectEffect(n) ==
    IF n.loading THEN [n EXCEPT !.effectDue = FALSE]
    ELSE IF ~n.session /\ inAuthGroup(n.segments)
    THEN [n EXCEPT !.segments = <<"login">>, !.replaced = @ + 1]
    ELSE IF n.session /\ ~inAuthGroup(n.segments)
    THEN [n EXCEPT !.segments = <<TabsGroup>>, !.replaced = @ + 1]
    ELSE [n EXCEPT !.effectDue = FALSE]

RedirectEffect ==
    /\ nav.effectDue
    /\ nav' = redirectEffect(nav)
    /\ UNCHANGED <<storeVars, run, syncVars, corr, bench, viewVars>>

\* the AuthProvider finishes its first session check
AuthResolved ==
    /\ nav.loading
    /\ \E session \in BOOLEAN :
          nav' = [nav EXCEPT !.loading = FALSE, !.session = session,
                             !.effectDue = TRUE]
    /\ UNCHANGED <<storeVars, run, syncVars, corr, bench, viewVars>>

\* the user signs in or signs out
AuthStateChange ==
    /\ nav.authEvents < MaxAuthEvents
    /\ nav' = [nav EXCEPT !.session = ~@, !.authEvents = @ + 1,
                          !.effectDue = TRUE]
    /\ UNCHANGED <<storeVars, run, syncVars, corr, bench, viewVars>>

\* the user moves to another route; the Stack is mounted only after loading
UserNavigates ==
    /\ ~nav.loading
    /\ nav.navigations < MaxNavigations
    /\ \E r \in Routes \ {nav.segments} :
          nav' = [nav EXCEPT !.segments = r, !.navigations = @ + 1,
                             !.effectDue = TRUE]
    /\ UNCHANGED <<storeVars, run, syncVars, corr, bench, viewVars>>

InitNav ==
    /\ health_data = {}
    /\ correlations_tbl = EmptyBag /\ anomalies_tbl = EmptyBag
    /\ patterns_tbl = EmptyBag
    /\ run = [p \in Runs |-> IdleRun]
    /\ hook = <<>> /\ dash = <<>> /\ home = <<>> /\ net = <<>> /\ device = <<>>
    /\ \E r \in Routes :
          nav = [loading |-> TRUE, session |-> FALSE, segments |-> r,
                 effectDue |-> TRUE, replaced |-> 0, authEvents |-> 0,
                 navigations |-> 0]
    /\ corr = <<>>
    /\ bench = <<>> /\ insights = <<>> /\ analytics = <<>> /\ wire = <<>>

NextNav ==
    \/ RedirectEffect
    \/ AuthResolved
    \/ AuthStateChange
    \/ UserNavigates

\* React runs a pending effect
SpecNav == InitNav /\ [][NextNav]_vars /\ WF_vars(RedirectEffect)

(***************************************************************************)
(* Claims about navigation (SpecNav)                                       *)
(***************************************************************************)
Settled == inAuthGroup(nav.segments) <=> nav.session

RedirectIssued == nav'.replaced # nav.replaced

\* C8: navigation follows the auth state. While loading, no redirect is issued
\* and the loading screen is what is rendered. A redirect is issued only when
\* loading is over and the route disagrees with the session: to /login when
\* there is no session on a (tabs) route, to /(tabs) when there is a session
\* outside (tabs); so no redirect is issued once route and session agree. Once
\* loading is false the route comes to agree with the session, and in the end
\* it stays so with no effect pending.
C8_NavigationFollowsAuth ==
    /\ [][RedirectIssued =>
            /\ ~nav.loading
            /\ ~Settled
            /\ nav'.segments = IF nav.session THEN <<TabsGroup>> ELSE <<"login">>]_vars
    /\ [](nav.loading => Screen(nav) = "LoadingScreen")
    /\ (~nav.loading) ~> (~nav.loading /\ Settled)
    /\ <>[](~nav.loading => (Settled /\ ~nav.effectDue))

\* signed out on a (tabs) route and sent to /login, then signed in and sent
\* back to /(tabs), where the effect has come to rest
C8_Witness ==
    /\ ~nav.loading /\ nav.session /\ nav.segments = <<TabsGroup>>
    /\ nav.replaced >= 2 /\ ~nav.effectDue

(***************************************************************************)
(* Correlation results and the screens that show them                      *)
(***************************************************************************)
MaxPairs == 3          \* length of the freely chosen coefficient lists
MaxSeeds == 2          \* number of long coefficient lists
LongLen == 12          \* length of a long list: more pairs than any screen shows
ChartBars == 10        \* CorrelationChart: correlations.slice(0, 10)
KeyRelationships == 5  \* CorrelatedDashboard: correlations.slice(0, 5)

Coefficients == (-100)..100
SmallCoeffs == {-StrongAt, -ModerateAt, 0, ModerateAt - 1, ModerateAt}

\* sequences over S of length 0..n
RECURSIVE SeqsUpTo(_, _)
SeqsUpTo(S, n) ==
    IF n = 0 THEN {<<>>}
    ELSE LET shorter == SeqsUpTo(S, n - 1)
         IN  shorter \cup {Append(q, x) : q \in shorter, x \in S}

\* a rising list where neighbours tie in |coefficient| with opposite signs
LongInput(k) ==
    [i \in 1..LongLen |->
        (IF i % 2 = 0 THEN 1 ELSE -1) * (((i \div 2) * 13 * k) % 101)]

\* one coefficient per metric pair, in the insertion order of the pairs
ResultsFrom(coeffs) ==
    [i \in 1..Len(coeffs) |->
        CorrelationResult(MetricPairs[i][1], MetricPairs[i][2], coeffs[i])]

PairIndex(r) ==
    CHOOSE i \in 1..Len(MetricPairs) : MetricPairs[i] = <<r.metric_a, r.metric_b>>

slice(s, n) == SubSeq(s, 1, Min(n, Len(s)))

getCorrelationColorStrict(value) ==
    IF Abs(value) > StrongAt THEN "#ef4444"
    ELSE IF Abs(value) > ModerateAt THEN "#f59e0b"
    ELSE "#10b981"

\* CorrelationChart.getCorrelationColor, on hundredths
getCorrelationColor(value) ==
    IF Abs(value) >= StrongAt THEN "#ef4444"
    ELSE IF Abs(value) >= ModerateAt THEN "#f59e0b"
    ELSE "#10b981"

getStrengthEmoji(strength) ==
    CASE strength = "strong" -> "red"
      [] strength = "moderate" -> "yellow"
      [] strength = "weak" -> "green"
      [] OTHER -> "white"

\* the chart's legend: which bucket a bar colour stands for
Legend(color) ==
    CASE color = "#ef4444" -> "strong"
      [] color = "#f59e0b" -> "moderate"
      [] color = "#10b981" -> "weak"

renderCorrelationBar(correlation) ==
    [metric_a |-> correlation.metric_a, metric_b |-> correlation.metric_b,
     width |-> Abs(correlation.correlation),
     color |-> getCorrelationColor(correlation.correlation),
     emoji |-> getStrengthEmoji(correlation.strength)]

\* the pair the fallback narrative talks about: correlations[0], if any
generateSimpleNarrative(correlations) ==
    IF Len(correlations) = 0 THEN <<>> ELSE <<correlations[1]>>

\* the analyzer evaluates the pairs and orders the results
Analyze ==
    /\ corr.pc = "pairs"
    /\ corr' = [corr EXCEPT !.pc = "analyzed",
                            !.results = SortByAbs(ResultsFrom(corr.input))]
    /\ UNCHANGED <<storeVars, run, syncVars, nav, bench, viewVars>>

\* CorrelationChart renders the first ten results as bars
RenderChart ==
    /\ corr.pc = "analyzed"
    /\ corr' = [corr EXCEPT !.pc = "charted",
                  !.bars = [i \in 1..Len(slice(corr.results, ChartBars)) |->
                               renderCorrelationBar(corr.results[i])]]
    /\ UNCHANGED <<storeVars, run, syncVars, nav, bench, viewVars>>

\* CorrelatedDashboard lists the first five and writes the fallback narrative
RenderDashboard ==
    /\ corr.pc = "charted"
    /\ corr' = [corr EXCEPT !.pc = "shown",
                  !.rows = slice(corr.results, KeyRelationships),
                  !.narrative = generateSimpleNarrative(corr.results)]
    /\ UNCHANGED <<storeVars, run, syncVars, nav, bench, viewVars>>

CorrInputs ==
    {<<c>> \o rest : c \in Coefficients, rest \in SeqsUpTo(SmallCoeffs, MaxPairs - 1)}
      \cup {<<>>} \cup {LongInput(k) : k \in 1..MaxSeeds}

InitCorr ==
    /\ health_data = {}
    /\ correlations_tbl = EmptyBag /\ anomalies_tbl = EmptyBag
    /\ patterns_tbl = EmptyBag
    /\ run = [p \in Runs |-> IdleRun]
    /\ hook = <<>> /\ dash = <<>> /\ home = <<>> /\ net = <<>> /\ device = <<>>
    /\ nav = <<>>
    /\ \E input \in CorrInputs :
          corr = [pc |-> "pairs", input |-> input, results |-> <<>>,
                  bars |-> <<>>, rows |-> <<>>, narrative |-> <<>>]
    /\ bench = <<>> /\ insights = <<>> /\ analytics = <<>> /\ wire = <<>>

NextCorr ==
    \/ Analyze
    \/ RenderChart
    \/ RenderDashboard

SpecCorr == InitCorr /\ [][NextCorr]_vars

(***************************************************************************)
(* Claims about correlation results (SpecCorr)                             *)
(***************************************************************************)
Analyzed == corr.pc # "pairs"

SameElements(s, t) ==
    /\ Len(s) = Len(t)
    /\ \A i \in 1..Len(s) :
          Cardinality({j \in 1..Len(s) : s[j] = s[i]})
             = Cardinality({j \in 1..Len(t) : t[j] = s[i]})

\* every result outside the prefix is no stronger than any result inside it
HoldsStrongest(prefix, results) ==
    /\ prefix = SubSeq(results, 1, Len(prefix))
    /\ \A i \in 1..Len(prefix) : \A j \in (Len(prefix) + 1)..Len(results) :
          Abs(prefix[i].correlation) >= Abs(results[j].correlation)

\* C9: the correlation results are the evaluated pairs ordered by descending
\* |coefficient|, ties in the insertion order of the metric pairs; so element 0
\* has the largest |coefficient|, and the ten bars of the chart, the five rows
\* of the dashboard, the ten results that are stored and the pair of the
\* fallback narrative are the strongest pairs.
C9_SortedByAbsCoefficientStable ==
    Analyzed =>
        /\ SameElements(corr.results, ResultsFrom(corr.input))
        /\ \A i, j \in 1..Len(corr.results) :
              i < j =>
                 /\ Abs(corr.results[i].correlation) >= Abs(corr.results[j].correlation)
                 /\ Abs(corr.results[i].correlation) = Abs(corr.results[j].correlation)
                       => PairIndex(corr.results[i]) < PairIndex(corr.results[j])
        /\ HoldsStrongest(slice(corr.results, TopCorrelations), corr.results)
        /\ corr.pc \in {"charted", "shown"} =>
              /\ Len(corr.bars) = Min(ChartBars, Len(corr.results))
              /\ \A i \in 1..Len(corr.bars) :
                    /\ corr.bars[i].metric_a = corr.results[i].metric_a
                    /\ corr.bars[i].metric_b = corr.results[i].metric_b
              /\ HoldsStrongest(SubSeq(corr.results, 1, Len(corr.bars)), corr.results)
        /\ corr.pc = "shown" =>
              /\ Len(corr.rows) = Min(KeyRelationships, Len(corr.results))
              /\ HoldsStrongest(corr.rows, corr.results)
              /\ Len(corr.narrative) = Min(1, Len(corr.results))
              /\ HoldsStrongest(corr.narrative, corr.results)

\* more results than any screen shows, with ties, and the order of the pairs
\* was not the order of the results
C9_Witness ==
    /\ corr.pc = "shown"
    /\ Len(corr.results) > ChartBars
    /\ Len(corr.bars) = ChartBars /\ Len(corr.rows) = KeyRelationships
    /\ corr.results # ResultsFrom(corr.input)
    /\ \E i \in 1..(Len(corr.results) - 1) :
          /\ corr.results[i].correlation = -corr.results[i + 1].correlation
          /\ corr.results[i].correlation # 0

Bucket(c) ==
    IF Abs(c) < ModerateAt THEN "weak"
    ELSE IF Abs(c) < StrongAt THEN "moderate"
    ELSE "strong"

\* C10: the strength of every result follows from |coefficient| alone: weak
\* below 0.4, moderate from 0.4 up to 0.7, strong from 0.7; and the colour of
\* every bar of the chart stands for the same bucket as the strength label.
C10_StrengthBucketsAgree ==
    /\ \A i \in 1..Len(corr.results) :
          corr.results[i].strength = Bucket(corr.results[i].correlation)
    /\ \A i \in 1..Len(corr.bars) :
          /\ Legend(corr.bars[i].color) = corr.results[i].strength
          /\ Legend(corr.bars[i].color) = Bucket(corr.bars[i].width)
          /\ corr.bars[i].emoji = getStrengthEmoji(Legend(corr.bars[i].color))

\* a chart with a bar exactly at each threshold and one just below
C10_Witness ==
    /\ corr.pc = "charted"
    /\ \E i, j, k \in 1..Len(corr.bars) :
          /\ corr.bars[i].width = StrongAt /\ corr.bars[i].color = "#ef4444"
          /\ corr.bars[j].width = ModerateAt /\ corr.bars[j].color = "#f59e0b"
          /\ corr.bars[k].width = ModerateAt - 1 /\ corr.bars[k].color = "#10b981"

(***************************************************************************)
(* The analyzers applied to datasets of their own: short windows with      *)
(* freely chosen cells, and long windows of generated rows                 *)
(***************************************************************************)
MaxRows == 3           \* rows of a short window
MaxWindow == 62        \* rows of the longest generated window
MinWindow == 8         \* rows of the shortest generated window
Unrelated == 2         \* the variant without a sleep-sugar relationship
Variants == 1..Unrelated   \* generated windows differ in their rhythm

Cells == {NULL, 0, 2}

\* a short window: sleep and sugar are chosen freely, steps vary with the date,
\* height is constant and the other metrics are never recorded
ShortRow(d, sleep, sugar) ==
    [id |-> d, user_id |-> "u1", date |-> d,
     metrics |-> [m \in MetricSet |->
        CASE m = "sleep_hours"   -> sleep
          [] m = "dietary_sugar" -> sugar
          [] m = "step_count"    -> d % 2
          [] m = "height"        -> 1
          [] OTHER               -> NULL]]

\* dates 1..n, with one date left out after position gap (gap = n: none)
ShortWindows(n) ==
    {[i \in 1..n |-> ShortRow(IF i > gap THEN i + 1 ELSE i, sleep[i], sugar[i])] :
        sleep \in [1..n -> Cells], sugar \in [1..n -> Cells], gap \in 0..n}

\* a generated row: sugar alternates in blocks of k days between high (1) and
\* low (0); sleep alternates between short (1) and long (3) nights so that
\* sugar is high after a short night, except in the last variant, where sleep
\* alternates daily and sugar in longer blocks (no relationship); water
\* rises over time, energy is recorded on a single day, height never changes
SleepBlock(k) == IF k = Unrelated THEN 1 ELSE k

LongMetrics(d, k) ==
    [m \in MetricSet |->
        CASE m = "sleep_hours"          -> IF d % 7 = 0 THEN NULL
                                           ELSE IF (d \div SleepBlock(k)) % 2 = 0
                                                THEN 1 ELSE 3
          [] m = "dietary_sugar"        -> IF d % 5 = 0 THEN NULL
                                           ELSE IF d % 11 = 0 THEN 0
                                           ELSE IF ((d - 1) \div k) % 2 = 0 THEN 1 ELSE 0
          [] m = "step_count"           -> d % 2
          [] m = "dietary_water"        -> IF d > MinRows THEN 1 ELSE 0
          [] m = "resting_heart_rate"   -> IF d = 4 THEN 1 ELSE 0
          [] m = "active_energy_burned" -> IF d = 3 THEN 1 ELSE NULL
          [] OTHER                      -> 1]

LongWindow(w, k) ==
    [i \in 1..w |-> [id |-> i, user_id |-> "u1", date |-> i,
                     metrics |-> LongMetrics(i, k)]]

BenchStart(df) ==
    [df |-> df, pc |-> "loaded", correlations |-> <<>>, first |-> <<>>,
     second |-> <<>>, trends |-> <<>>, halves |-> <<>>, pattern |-> <<>>,
     stored |-> <<>>]

\* analyze_correlations on the window
BenchCorrelate ==
    /\ bench.pc = "loaded"
    /\ bench' = [bench EXCEPT !.pc = "correlated",
                              !.correlations = analyze_correlations(bench.df)]
    /\ UNCHANGED <<storeVars, run, syncVars, nav, corr, viewVars>>

\* the detector runs on the window, and then once more
BenchDetect ==
    /\ bench.pc = "correlated"
    /\ bench' = [bench EXCEPT !.pc = "detected", !.first = detect(bench.df, 1)]
    /\ UNCHANGED <<storeVars, run, syncVars, nav, corr, viewVars>>

BenchDetectAgain ==
    /\ bench.pc = "detected"
    /\ bench' = [bench EXCEPT !.pc = "detected twice",
                              !.second = detect(bench.df, 2)]
    /\ UNCHANGED <<storeVars, run, syncVars, nav, corr, viewVars>>

Dates(rows) == [i \in 1..Len(rows) |-> rows[i].date]

\* analyze_trends on the window; the dates of the rows behind the two averages
\* are kept next to the result
BenchTrends ==
    /\ bench.pc = "detected twice"
    /\ bench' = [bench EXCEPT !.pc = "trended",
                              !.trends = analyze_trends(bench.df),
                              !.halves = [first |-> Dates(FirstHalf(bench.df)),
                                          last |-> Dates(LastHalf(bench.df))]]
    /\ UNCHANGED <<storeVars, run, syncVars, nav, corr, viewVars>>

\* detect_sleep_sugar_pattern on the window, and what run_full_analysis then
\* hands to store_pattern: a row when the result says pattern_detected
BenchPattern ==
    /\ bench.pc = "trended"
    /\ LET r == detect_sleep_sugar_pattern(bench.df)
       IN bench' = [bench EXCEPT
             !.pc = "patterned",
             !.pattern = r,
             !.stored = IF r.pattern_detected
                        THEN <<[pattern_type |-> "sleep_sugar",
                                lag_days |-> LagDays,
                                p_value |-> r.p_value,
                                percent_change |-> r.percent_change,
                                threshold_value |-> r.sleep_threshold,
                                confidence_level |->
                                    IF r.statistically_significant
                                    THEN "high" ELSE "medium"]>>
                        ELSE <<>>]
    /\ UNCHANGED <<storeVars, run, syncVars, nav, corr, viewVars>>

InitBench ==
    /\ health_data = {}
    /\ correlations_tbl = EmptyBag /\ anomalies_tbl = EmptyBag
    /\ patterns_tbl = EmptyBag
    /\ run = [p \in Runs |-> IdleRun]
    /\ hook = <<>> /\ dash = <<>> /\ home = <<>> /\ net = <<>> /\ device = <<>>
    /\ nav = <<>> /\ corr = <<>>
    /\ insights = <<>> /\ analytics = <<>> /\ wire = <<>>
    /\ \/ \E n \in 0..MaxRows : \E df \in ShortWindows(n) : bench = BenchStart(df)
       \/ \E w \in MinWindow..MaxWindow, k \in Variants :
             bench = BenchStart(LongWindow(w, k))

NextBench ==
    \/ BenchCorrelate
    \/ BenchDetect
    \/ BenchDetectAgain
    \/ BenchTrends
    \/ BenchPattern

SpecBench == InitBench /\ [][NextBench]_vars

(***************************************************************************)
(* Claims about the analyzers (SpecBench)                                  *)
(***************************************************************************)
Values(df, m) == {df[i].metrics[m] : i \in 1..Len(df)} \ {NULL}

ZeroVariance(df, m) == Cardinality(Values(df, m)) <= 1

Reported(results, a, b) ==
    {i \in 1..Len(results) :
        results[i].metric_a = a /\ results[i].metric_b = b}

\* C11: a metric pair in which a metric has zero variance, or which has fewer
\* overlapping non-null samples than the minimum, is absent from the
\* correlation results (not reported with coefficient 0 or any other), and the
\* analyzer returns its list all the same: the other pairs are each reported
\* once.
C11_UndefinedPairsAreAbsent ==
    bench.pc # "loaded" =>
        /\ \A k \in 1..Len(MetricPairs) :
              LET a == MetricPairs[k][1]
                  b == MetricPairs[k][2]
                  rows == Overlap(bench.df, a, b)
              IN  IF \/ ZeroVariance(bench.df, a) \/ ZeroVariance(bench.df, b)
                     \/ Len(rows) < MinOverlap
                  THEN Reported(bench.correlations, a, b) = {}
                  ELSE (~ZeroVariance(rows, a) /\ ~ZeroVariance(rows, b))
                          => Cardinality(Reported(bench.correlations, a, b)) = 1

\* one pair left out for a constant column, one left out for a single shared
\* row although both columns vary, and one pair reported
C11_Witness ==
    /\ bench.pc = "correlated"
    /\ ZeroVariance(bench.df, "height") /\ ~ZeroVariance(bench.df, "step_count")
    /\ Len(Overlap(bench.df, "step_count", "height")) >= MinOverlap
    /\ Reported(bench.correlations, "step_count", "height") = {}
    /\ ~ZeroVariance(bench.df, "sleep_hours")
    /\ ~ZeroVariance(bench.df, "dietary_sugar")
    /\ Len(Overlap(bench.df, "sleep_hours", "dietary_sugar")) = MinOverlap - 1
    /\ Reported(bench.correlations, "sleep_hours", "dietary_sugar") = {}
    /\ Reported(bench.correlations, "sleep_hours", "step_count") # {}

FlaggedDays(result) == {result.flagged[i].date : i \in 1..Len(result.flagged)}

Past(pcs) == bench.pc \notin ({"loaded"} \cup pcs)

Range(f) == {f[i] : i \in DOMAIN f}

\* the window with the metrics of row i all missing
Blanked(df, i) ==
    [df EXCEPT ![i].metrics = [m \in MetricSet |-> NULL]]

TrendOf(trends, m) == {i \in 1..Len(trends) : trends[i].metric = m}

HalfValues(half, m) == NonNull(Column(half, m))

\* C15: the trend analyzer never divides by zero: a metric whose first-half
\* average is zero, or a half of which has no non-null value, is skipped, and
\* every trend it returns has a numeric percent change; every other metric is
\* returned once.
C15_TrendNeverDividesByZero ==
    Past({"correlated", "detected", "detected twice"}) =>
        /\ \A i \in 1..Len(bench.trends) : bench.trends[i].percent_change \in Int
        /\ \A m \in MetricSet :
              LET first == HalfValues(FirstHalf(bench.df), m)
                  last == HalfValues(LastHalf(bench.df), m)
              IN IF first = <<>> \/ last = <<>> \/ SumSeq(first) = 0
                 THEN TrendOf(bench.trends, m) = {}
                 ELSE Cardinality(TrendOf(bench.trends, m)) = 1

\* one metric skipped for a first half of zeros, one for a last half without
\* a value, and one reported
C15_Witness ==
    /\ bench.pc = "trended"
    /\ HalfValues(FirstHalf(bench.df), "dietary_water") # <<>>
    /\ SumSeq(HalfValues(FirstHalf(bench.df), "dietary_water")) = 0
    /\ SumSeq(HalfValues(LastHalf(bench.df), "dietary_water")) > 0
    /\ TrendOf(bench.trends, "dietary_water") = {}
    /\ HalfValues(FirstHalf(bench.df), "active_energy_burned") # <<>>
    /\ HalfValues(LastHalf(bench.df), "active_energy_burned") = <<>>
    /\ TrendOf(bench.trends, "active_energy_burned") = {}
    /\ TrendOf(bench.trends, "step_count") # {}

Patterned == bench.pc = "patterned"

\* the value of metric m on date d of the window, NULL when the date or the
\* value is missing
ValueOn(df, d, m) ==
    IF \E i \in 1..Len(df) : df[i].date = d
    THEN df[CHOOSE i \in 1..Len(df) : df[i].date = d].metrics[m]
    ELSE NULL

WindowDates(df) == {df[i].date : i \in 1..Len(df)}

\* the days with sleep on the day and sugar on the day after the lag
CompletePairs(df) ==
    {d \in WindowDates(df) :
        /\ ValueOn(df, d, "sleep_hours") # NULL
        /\ ValueOn(df, d + LagDays, "dietary_sugar") # NULL}

C17_IncompletePairsAreDropped ==
    Patterned =>
        LET pairs == CompletePairs(bench.df)
            below == {d \in pairs :
                         ValueOn(bench.df, d, "sleep_hours") < SleepThreshold}
            lo == LaggedOutcomes(bench.df, TRUE)
            hi == LaggedOutcomes(bench.df, FALSE)
        IN /\ bench.pattern.n_below = Cardinality(below)
           /\ bench.pattern.n_above = Cardinality(pairs \ below)
           /\ {bench.df[i].date : i \in DOMAIN lo} = below
           /\ {bench.df[i].date : i \in DOMAIN hi} = pairs \ below
           /\ \A i \in DOMAIN lo :
                 lo[i] = ValueOn(bench.df, bench.df[i].date + LagDays, "dietary_sugar")
           /\ \A i \in DOMAIN hi :
                 hi[i] = ValueOn(bench.df, bench.df[i].date + LagDays, "dietary_sugar")
           /\ bench.pattern.pattern_detected \in BOOLEAN

\* a window with a date left out between two recorded days, a missing sleep
\* value and a missing sugar value: one pair is left
C17_Witness ==
    /\ Patterned
    /\ Len(bench.df) = MaxRows
    /\ \E i \in 1..(Len(bench.df) - 1) :
          /\ bench.df[i + 1].date > bench.df[i].date + LagDays
          /\ bench.df[i].metrics["sleep_hours"] # NULL
          /\ bench.df[i + 1].metrics["dietary_sugar"] # NULL
    /\ \E i \in 1..Len(bench.df) : bench.df[i].metrics["sleep_hours"] = NULL
    /\ \E i \in 1..Len(bench.df) : bench.df[i].metrics["dietary_sugar"] = NULL
    /\ bench.pattern.n_below + bench.pattern.n_above = 1

(***************************************************************************)
(* Client: the API module (lib/api) and the documented backend endpoints   *)
(***************************************************************************)
TimeRanges == {30, 60, 90}
SummaryDays == 7       \* getSummary: days = 7 by default
FilterTypes == {"all", "daily", "weekly", "anomaly", "pattern", "correlation"}
InsightIds == {"i1", "i2", "i3"}

Req(method, path, query) == [method |-> method, path |-> path, query |-> query]

NoQuery == <<>>
Param(name, value) == [n \in {name} |-> value]

\* ...(value && {name: value}): the parameter is sent when the value is set
Opt(name, value) == IF value = "" THEN NoQuery ELSE Param(name, value)

healthData_sync(userId) ==
    Req("POST", <<"api", "health-data", userId, "sync">>, NoQuery)
healthData_batchSync(userId) ==
    Req("POST", <<"api", "health-data", userId, "batch-sync">>, NoQuery)
healthData_getHistory(userId, days, startDate, endDate) ==
    Req("GET", <<"api", "health-data", userId>>,
        Param("days", days) @@ Opt("start_date", startDate)
                            @@ Opt("end_date", endDate))

analytics_analyze(userId, days) ==
    Req("POST", <<"api", "analytics", userId, "analyze">>, Param("days", days))
analytics_getCorrelations(userId, days) ==
    Req("GET", <<"api", "analytics", userId, "correlations">>, Param("days", days))
analytics_getAnomalies(userId, days) ==
    Req("GET", <<"api", "analytics", userId, "anomalies">>, Param("days", days))
analytics_getTrends(userId, days) ==
    Req("GET", <<"api", "analytics", userId, "trends">>, Param("days", days))
analytics_getSummary(userId, days) ==
    Req("GET", <<"api", "analytics", userId, "summary">>, Param("days", days))
analytics_getBaselines(userId) ==
    Req("GET", <<"api", "analytics", userId, "baselines">>, NoQuery)

insights_getDaily(userId, userName) ==
    Req("GET", <<"api", "insights", userId, "daily">>, Opt("user_name", userName))
insights_getWeekly(userId, userName) ==
    Req("GET", <<"api", "insights", userId, "weekly">>, Opt("user_name", userName))
insights_getFeed(userId, insightType, unreadOnly, limit) ==
    Req("GET", <<"api", "insights", userId, "feed">>,
        Param("unread_only", unreadOnly) @@ Param("limit", limit)
            @@ Opt("insight_type", insightType))
insights_markAsRead(userId, insightId) ==
    Req("PATCH", <<"api", "insights", userId, "mark-read", insightId>>, NoQuery)
insights_getCorrelatedNarrative(userId) ==
    Req("POST", <<"api", "insights", userId, "correlated-narrative">>, NoQuery)
insights_getTomorrowPrediction(userId, userName) ==
    Req("GET", <<"api", "insights", userId, "tomorrow">>, Opt("user_name", userName))

healthCheck == Req("GET", <<"health">>, NoQuery)

Endpoint(method, path, params) == [method |-> method, path |-> path, params |-> params]

\* The endpoints the backend documents: the README's lists and curl examples
\* and those of the backend's testing guide. "{user_id}" and
\* "{insight_id}" stand for any id; params are the query parameter names an
\* endpoint is documented with.
Documented ==
    {Endpoint("GET", <<>>, {}),
     Endpoint("GET", <<"health">>, {}),
     Endpoint("POST", <<"api", "health-data", "{user_id}", "sync">>, {}),
     Endpoint("GET", <<"api", "health-data", "{user_id}">>, {"days"}),
     Endpoint("POST", <<"api", "analytics", "{user_id}", "analyze">>, {"days"}),
     Endpoint("GET", <<"api", "analytics", "{user_id}", "correlations">>, {"days"}),
     Endpoint("GET", <<"api", "analytics", "{user_id}", "anomalies">>, {"days"}),
     Endpoint("GET", <<"api", "analytics", "{user_id}", "trends">>, {"days"}),
     Endpoint("GET", <<"api", "analytics", "{user_id}", "patterns">>, {}),
     Endpoint("GET", <<"api", "insights", "{user_id}", "daily">>, {"user_name"}),
     Endpoint("GET", <<"api", "insights", "{user_id}", "weekly">>, {"user_name"}),
     Endpoint("GET", <<"api", "analytics", "{user_id}", "summary">>, {"days"}),
     Endpoint("GET", <<"api", "analytics", "{user_id}", "baselines">>, {}),
     Endpoint("GET", <<"api", "insights", "{user_id}", "feed">>,
              {"type", "limit", "unread_only", "insight_type"}),
     Endpoint("GET", <<"api", "insights", "{user_id}", "tomorrow-prediction">>,
              {"user_name"}),
     Endpoint("POST",
              <<"api", "insights", "{user_id}", "mark-read", "{insight_id}">>, {})}

Placeholders == {"{user_id}", "{insight_id}"}

\* a request is served by an endpoint: same method, same path up to the ids,
\* and no query parameter the endpoint does not know
Serves(e, r) ==
    /\ e.method = r.method
    /\ Len(e.path) = Len(r.path)
    /\ \A i \in 1..Len(e.path) :
          e.path[i] = r.path[i] \/ e.path[i] \in Placeholders
    /\ DOMAIN r.query \subseteq e.params

UserNames == {"", "Sam", "Kyle"}
DateArgs == {"", "2025-10-01"}
FeedLimit == 50        \* the insights screen asks for 50 insights

\* a call of the health data functions
HealthDataCall ==
    /\ \E u \in Users :
          \/ wire' = healthData_sync(u)
          \/ wire' = healthData_batchSync(u)
          \/ \E days \in TimeRanges, s \in DateArgs, e \in DateArgs :
                wire' = healthData_getHistory(u, days, s, e)
    /\ UNCHANGED <<storeVars, run, syncVars, nav, corr, bench, insights, analytics>>

\* a call of the analytics functions
AnalyticsCall ==
    /\ \E u \in Users :
          \/ \E days \in TimeRanges :
                wire' \in {analytics_analyze(u, days),
                           analytics_getCorrelations(u, days),
                           analytics_getAnomalies(u, days),
                           analytics_getTrends(u, days)}
          \/ \E days \in TimeRanges \cup {SummaryDays} :
                wire' = analytics_getSummary(u, days)
          \/ wire' = analytics_getBaselines(u)
    /\ UNCHANGED <<storeVars, run, syncVars, nav, corr, bench, insights, analytics>>

\* a call of the insights functions
InsightsCall ==
    /\ \E u \in Users :
          \/ \E name \in UserNames :
                wire' \in {insights_getDaily(u, name),
                           insights_getWeekly(u, name),
                           insights_getTomorrowPrediction(u, name)}
          \/ \E f \in FilterTypes, unread \in BOOLEAN :
                wire' = insights_getFeed(u, IF f = "all" THEN "" ELSE f,
                                         unread, FeedLimit)
          \/ \E id \in InsightIds : wire' = insights_markAsRead(u, id)
          \/ wire' = insights_getCorrelatedNarrative(u)
    /\ UNCHANGED <<storeVars, run, syncVars, nav, corr, bench, insights, analytics>>

HealthCheckCall ==
    /\ wire' = healthCheck
    /\ UNCHANGED <<storeVars, run, syncVars, nav, corr, bench, insights, analytics>>

NoCall == Req("", <<>>, NoQuery)

InitApi ==
    /\ wire = NoCall
    /\ health_data = {}
    /\ correlations_tbl = EmptyBag /\ anomalies_tbl = EmptyBag
    /\ patterns_tbl = EmptyBag
    /\ run = <<>>
    /\ hook = <<>> /\ dash = <<>> /\ home = <<>> /\ net = <<>> /\ device = <<>>
    /\ nav = <<>> /\ corr = <<>> /\ bench = <<>>
    /\ insights = <<>> /\ analytics = <<>>

NextApi ==
    \/ HealthDataCall
    \/ AnalyticsCall
    \/ InsightsCall
    \/ HealthCheckCall

SpecApi == InitApi /\ [][NextApi]_vars

\* C18: every request the client's API module issues uses the method, the
\* path and the query parameter names of a documented backend endpoint.
C18_RequestsMatchDocumentedEndpoints ==
    wire # NoCall => \E e \in Documented : Serves(e, wire)

(***************************************************************************)
(* Backend: the analytics endpoints (routers/analytics)                    *)
(***************************************************************************)
Ok(body) == [status |-> 200, body |-> body]
ServerError == [status |-> 500, body |-> <<>>]

\* GET correlations: the analyzer's list over the window
get_correlations(user_id, days) ==
    {Ok(analyze_correlations(get_health_data(user_id, days)))}

\* GET anomalies: the handler has no row-count check and its body has no
\* status field. On a window the detector answers with "insufficient data"
\* the handler's unpacking either raises (500) or finds no flagged row
\* (200 with an empty list); the response set holds both.
get_anomalies(user_id, days) ==
    LET res == detect(get_health_data(user_id, days), 0)
    IN IF res.status = "insufficient_data"
       THEN {ServerError, Ok(<<>>)}
       ELSE {Ok(res.flagged)}

\* GET trends: the analyzer's list over the window
get_trends(user_id, days) ==
    {Ok(analyze_trends(get_health_data(user_id, days)))}

(***************************************************************************)
(* Client: the analytics screen (loadAnalytics) and the home screen's      *)
(* statistics (loadStats)                                                  *)
(***************************************************************************)
MaxLoads == 2          \* loads of one screen in flight at the same time
StatsDays == 90        \* loadStats asks for 90 days
DefaultTimeRange == 90 \* useState<TimeRange>(90)
LoadIds == 1..MaxLoads

\* promise.catch(() => fallback): a failed request becomes the fallback
Caught(resp, fallback) == IF resp.status = 200 THEN resp.body ELSE fallback

FreeId(loads) == CHOOSE i \in LoadIds : \A l \in loads : l.id # i

\* loadAnalytics up to its await: the spinner and the three requests, which
\* carry the timeRange of the render that called it
loadAnalyticsStart(a, isRefresh, timeRange) ==
    [a EXCEPT !.loading = IF isRefresh THEN @ ELSE TRUE,
              !.refreshing = IF isRefresh THEN TRUE ELSE @,
              !.loads = @ \cup {[id |-> FreeId(a.loads), days |-> timeRange]}]

\* pressing a time range button: setTimeRange, then the effect reloads
SelectTimeRange ==
    /\ analytics # <<>>
    /\ Cardinality(analytics.loads) < MaxLoads
    /\ \E r \in TimeRanges \ {analytics.timeRange} :
          analytics' = loadAnalyticsStart([analytics EXCEPT !.timeRange = r], FALSE, r)
    /\ UNCHANGED <<storeVars, run, syncVars, nav, corr, bench, insights, wire>>

\* pull to refresh: loadAnalytics(true)
RefreshAnalytics ==
    /\ analytics # <<>>
    /\ Cardinality(analytics.loads) < MaxLoads
    /\ analytics' = loadAnalyticsStart(analytics, TRUE, analytics.timeRange)
    /\ UNCHANGED <<storeVars, run, syncVars, nav, corr, bench, insights, wire>>

\* loadAnalytics after its await: the three responses of one load arrive,
\* failures are replaced by empty lists, the results are shown and both
\* spinners stop
LoadAnalyticsDone ==
    /\ analytics # <<>>
    /\ \E l \in analytics.loads :
       \E c \in get_correlations(UserId, l.days) :
       \E a \in get_anomalies(UserId, l.days) :
       \E t \in get_trends(UserId, l.days) :
          analytics' = [analytics EXCEPT
              !.analysisData = [days_analyzed |-> l.days,
                                correlations |-> Caught(c, <<>>),
                                anomalies |-> Caught(a, <<>>),
                                trends |-> Caught(t, <<>>)],
              !.loading = FALSE,
              !.refreshing = FALSE,
              !.loads = @ \ {l}]
    /\ UNCHANGED <<storeVars, run, syncVars, nav, corr, bench, insights, wire>>

\* loadStats up to its first await (after a sync, or on mount)
LoadStatsStart ==
    /\ analytics # <<>>
    /\ ~analytics.statsLoading
    /\ analytics' = [analytics EXCEPT !.statsLoading = TRUE]
    /\ UNCHANGED <<storeVars, run, syncVars, nav, corr, bench, insights, wire>>

\* loadStats after its awaits: each count is the length of the list in the
\* response, and 0 when the request failed (the day streak is left out)
LoadStatsDone ==
    /\ analytics # <<>>
    /\ analytics.statsLoading
    /\ \E c \in get_correlations(UserId, StatsDays) :
       \E a \in get_anomalies(UserId, StatsDays) :
          analytics' = [analytics EXCEPT
              !.correlationsCount = Len(Caught(c, <<>>)),
              !.anomaliesCount = Len(Caught(a, <<>>)),
              !.statsLoading = FALSE]
    /\ UNCHANGED <<storeVars, run, syncVars, nav, corr, bench, insights, wire>>

\* the user's stored days: a short history, a full one, and one with a gap
\* of recent days (under the minimum for 30 days, at it for 60 and 90)
ShortDays == 20
GapFrom == 26
GapTo == 36
Histories ==
    {(Today - ShortDays + 1)..Today, 1..Today, (0..Today) \ (GapFrom..GapTo)}

\* both screens mounted: their effects have called loadAnalytics and loadStats
InitAnalytics ==
    /\ \E days \in Histories : health_data = {SynthRow(UserId, d) : d \in days}
    /\ correlations_tbl = EmptyBag
    /\ anomalies_tbl = EmptyBag
    /\ patterns_tbl = EmptyBag
    /\ analytics = [timeRange |-> DefaultTimeRange,
                    analysisData |-> <<>>,
                    loading |-> TRUE,
                    refreshing |-> FALSE,
                    loads |-> {[id |-> 1, days |-> DefaultTimeRange]},
                    correlationsCount |-> NULL,
                    anomaliesCount |-> NULL,
                    statsLoading |-> TRUE]
    /\ run = <<>>
    /\ hook = <<>> /\ dash = <<>> /\ home = <<>> /\ net = <<>> /\ device = <<>>
    /\ nav = <<>> /\ corr = <<>> /\ bench = <<>> /\ insights = <<>> /\ wire = <<>>

NextAnalytics ==
    \/ SelectTimeRange
    \/ RefreshAnalytics
    \/ LoadAnalyticsDone
    \/ LoadStatsStart
    \/ LoadStatsDone

SpecAnalytics == InitAnalytics /\ [][NextAnalytics]_vars

\* the rows behind a number of days
WindowRows(days) == Len(get_health_data(UserId, days))

\* C13: a window of fewer than 30 rows is shown as "insufficient data": the
\* analytics screen never shows an empty anomaly list for it and the home
\* screen never shows an anomaly count of zero for it.
C13_InsufficientDataReachesScreen ==
    analytics # <<>> =>
        /\ (/\ analytics.analysisData # <<>>
            /\ WindowRows(analytics.analysisData.days_analyzed) < MinRows)
              => analytics.analysisData.anomalies # <<>>
        /\ (/\ analytics.anomaliesCount # NULL
            /\ WindowRows(StatsDays) < MinRows)
              => analytics.anomaliesCount # 0

(***************************************************************************)
(* Client: the insights screen (loadInsights, handleMarkAsRead) over the   *)
(* backend's insights table                                                *)
(***************************************************************************)
MaxMarks == 2          \* mark-read requests in flight at the same time

\* the user's insights by priority, each with its type
AllInsights == <<"i1", "i2", "i3">>
InsightType == [i \in InsightIds |-> IF i = "i2" THEN "anomaly" ELSE "daily"]

\* SupabaseService.get_insights: the user's insights of a type (all when none
\* is given), by priority; read is the set of ids the table has as read
get_insights(read, insight_type) ==
    LET rows == [k \in 1..Len(AllInsights) |->
                    [id |-> AllInsights[k],
                     insight_type |-> InsightType[AllInsights[k]],
                     is_read |-> AllInsights[k] \in read]]
    IN SelectSeq(rows, LAMBDA r : insight_type = "" \/ r.insight_type = insight_type)

\* the feed response (InsightsFeed)
get_insights_feed(read, insight_type) ==
    LET rows == get_insights(read, insight_type)
    IN [total_count |-> Len(rows),
        unread_count |-> Len(SelectSeq(rows, LAMBDA r : ~r.is_read)),
        insights |-> rows]

NoFeed == <<>>

\* lastMark: the mark-read response handled by the latest step, with the feed
\* that was on screen just before it; NoMark after any other step
NoMark == [id |-> "", before |-> NoFeed, ok |-> FALSE]

\* loadInsights up to its await; the request carries the filter of the render
\* that called it
loadInsightsStart(s, isRefresh, filter) ==
    [s EXCEPT !.loading = IF isRefresh THEN @ ELSE TRUE,
              !.refreshing = IF isRefresh THEN TRUE ELSE @,
              !.loads = @ \cup {[id |-> FreeId(s.loads), filter |-> filter]},
              !.lastMark = NoMark]

\* pressing a filter tab: setFilter, then the effect reloads
SelectFilter ==
    /\ Cardinality(insights.loads) < MaxLoads
    /\ \E f \in FilterTypes \ {insights.filter} :
          insights' = loadInsightsStart([insights EXCEPT !.filter = f], FALSE, f)
    /\ UNCHANGED <<storeVars, run, syncVars, nav, corr, bench, analytics, wire>>

\* pull to refresh: loadInsights(true)
RefreshInsights ==
    /\ Cardinality(insights.loads) < MaxLoads
    /\ insights' = loadInsightsStart(insights, TRUE, insights.filter)
    /\ UNCHANGED <<storeVars, run, syncVars, nav, corr, bench, analytics, wire>>

\* loadInsights after its await: the feed of the request's filter is shown
LoadInsightsDone ==
    /\ \E l \in insights.loads :
          insights' = [insights EXCEPT
              !.feed = get_insights_feed(insights.table,
                                         IF l.filter = "all" THEN "" ELSE l.filter),
              !.loading = FALSE,
              !.refreshing = FALSE,
              !.loads = @ \ {l},
              !.lastMark = NoMark]
    /\ UNCHANGED <<storeVars, run, syncVars, nav, corr, bench, analytics, wire>>

\* loadInsights when getFeed throws: logged, the feed stays
LoadInsightsFailed ==
    /\ \E l \in insights.loads :
          insights' = [insights EXCEPT
              !.loading = FALSE,
              !.refreshing = FALSE,
              !.loads = @ \ {l},
              !.lastMark = NoMark]
    /\ UNCHANGED <<storeVars, run, syncVars, nav, corr, bench, analytics, wire>>

\* the feed handleMarkAsRead sets: the insight read, one unread less
markedAsRead(feed, insightId) ==
    [feed EXCEPT
        !.insights = [k \in 1..Len(feed.insights) |->
                         IF feed.insights[k].id = insightId
                         THEN [feed.insights[k] EXCEPT !.is_read = TRUE]
                         ELSE feed.insights[k]],
        !.unread_count = Max(0, feed.unread_count - 1)]

\* the button of an unread card is pressed: handleMarkAsRead of the current
\* render runs up to its await; seen is the insightsFeed of that render
TapMarkAsRead ==
    /\ insights.feed # NoFeed
    /\ Cardinality(insights.marks) < MaxMarks
    /\ \E k \in 1..Len(insights.feed.insights) :
          /\ ~insights.feed.insights[k].is_read
          /\ insights' = [insights EXCEPT
                !.marks = @ \cup {[id |-> insights.feed.insights[k].id,
                                   seen |-> insights.feed]},
                !.lastMark = NoMark]
    /\ UNCHANGED <<storeVars, run, syncVars, nav, corr, bench, analytics, wire>>

\* the backend confirms: the insight is read in the table, and
\* handleMarkAsRead goes on to set the feed from the one it has seen
MarkAsReadDone ==
    /\ \E mk \in insights.marks :
          insights' = [insights EXCEPT
              !.table = @ \cup {mk.id},
              !.feed = IF mk.seen # NoFeed THEN markedAsRead(mk.seen, mk.id) ELSE @,
              !.marks = @ \ {mk},
              !.lastMark = [id |-> mk.id, before |-> insights.feed, ok |-> TRUE]]
    /\ UNCHANGED <<storeVars, run, syncVars, nav, corr, bench, analytics, wire>>

\* the request fails: logged, nothing is set
MarkAsReadFailed ==
    /\ \E mk \in insights.marks :
          insights' = [insights EXCEPT
              !.marks = @ \ {mk},
              !.lastMark = [id |-> mk.id, before |-> insights.feed, ok |-> FALSE]]
    /\ UNCHANGED <<storeVars, run, syncVars, nav, corr, bench, analytics, wire>>

\* the screen mounted: its effect has called loadInsights
InitInsights ==
    /\ \E read \in SUBSET {"i3"} :
          insights = [filter |-> "all", feed |-> NoFeed, loading |-> TRUE,
                      refreshing |-> FALSE,
                      loads |-> {[id |-> 1, filter |-> "all"]},
                      marks |-> {}, table |-> read, lastMark |-> NoMark]
    /\ health_data = {}
    /\ correlations_tbl = EmptyBag /\ anomalies_tbl = EmptyBag
    /\ patterns_tbl = EmptyBag
    /\ run = <<>>
    /\ hook = <<>> /\ dash = <<>> /\ home = <<>> /\ net = <<>> /\ device = <<>>
    /\ nav = <<>> /\ corr = <<>> /\ bench = <<>>
    /\ analytics = <<>> /\ wire = <<>>

NextInsights ==
    \/ SelectFilter
    \/ RefreshInsights
    \/ LoadInsightsDone
    \/ LoadInsightsFailed
    \/ TapMarkAsRead
    \/ MarkAsReadDone
    \/ MarkAsReadFailed

SpecInsights == InitInsights /\ [][NextInsights]_vars

\* C19: when the backend confirms a mark-read, that insight is shown read, the
\* unread count is one less (never below 0) and everything else on screen is
\* as it was just before; when the request fails the screen is unchanged.
C19_MarkReadChangesOnlyThatInsight ==
    insights.lastMark # NoMark =>
        LET before == insights.lastMark.before
            id == insights.lastMark.id
        IN IF insights.lastMark.ok
           THEN /\ insights.feed.total_count = before.total_count
                /\ insights.feed.unread_count = Max(0, before.unread_count - 1)
                /\ Len(insights.feed.insights) = Len(before.insights)
                /\ \A k \in 1..Len(before.insights) :
                      insights.feed.insights[k] =
                          IF before.insights[k].id = id
                          THEN [before.insights[k] EXCEPT !.is_read = TRUE]
                          ELSE before.insights[k]
           ELSE insights.feed = before

ShownIds(feed) == {feed.insights[k].id : k \in 1..Len(feed.insights)}

\* C20: whenever no load is in flight, the insights on screen are those of the
\* currently selected filter.
C20_ScreenShowsCurrentSelection ==
    (insights.loads = {} /\ insights.feed # NoFeed) =>
        ShownIds(insights.feed) =
            {i \in InsightIds :
                insights.filter = "all" \/ InsightType[i] = insights.filter}

(***************************************************************************)
(* Client: CorrelatedDashboard's data loading (loadDashboardData)          *)
(***************************************************************************)
DefaultDays30 == 30    \* CorrelatedDashboard({ days = 30 })
MinCorrelationDays == 30   \* Math.max(days, 30)
Undefined_ == -2       \* a prop that is not passed
DaysProps == {Undefined_, 0, 7, 29, 30, 31, 90}
MaxDashLoads == 1      \* loads of the dashboard in flight at the same time

\* the days the correlations request is sent with, whatever the prop asks for
correlationDaysAsProp(days) == days

correlationDays(days) == Max(days, MinCorrelationDays)

\* loadDashboardData up to its await: the spinner and the two requests of
\* Promise.all, for the days of the render that called it
loadDashboardDataStart(c, days) ==
    [c EXCEPT !.loading = TRUE,
              !.loads = @ \cup
                  {[id |-> FreeId(c.loads), phase |-> "fetching", days |-> days,
                    history |-> healthData_getHistory(UserId, days, "", ""),
                    correlations |->
                        analytics_getCorrelations(UserId, correlationDays(days)),
                    found |-> <<>>]}]

\* the parent renders the dashboard with another days prop: the effect reloads
ChangeDays ==
    /\ Cardinality(corr.loads) < MaxDashLoads
    /\ \E d \in DaysProps \ {Undefined_, corr.days} :
          corr' = loadDashboardDataStart([corr EXCEPT !.days = d], d)
    /\ UNCHANGED <<storeVars, run, syncVars, nav, bench, viewVars>>

\* both responses of a load arrive (a failure is replaced by an empty list);
\* the data and the correlations are set, and with data the narrative is asked
\* for, without data the spinner stops
DashboardFetched ==
    /\ \E l \in corr.loads :
       \E h \in {Ok(get_health_data(UserId, l.history.query["days"])), ServerError} :
       \E c \in get_correlations(UserId, l.correlations.query["days"])
                   \cup {ServerError} :
          /\ l.phase = "fetching"
          /\ LET data == Caught(h, <<>>)
                 found == Caught(c, <<>>)
             IN corr' = [corr EXCEPT
                   !.healthData = data,
                   !.correlations = found,
                   !.narrativeLoading = IF data # <<>> THEN TRUE ELSE @,
                   !.loading = IF data # <<>> THEN @ ELSE FALSE,
                   !.loads = IF data # <<>>
                             THEN (@ \ {l}) \cup
                                  {[l EXCEPT !.phase = "narrating", !.found = found]}
                             ELSE @ \ {l}]
    /\ UNCHANGED <<storeVars, run, syncVars, nav, bench, viewVars>>

\* loadNarrative after its await: the backend's narrative, or the simple one
\* made from the correlations when the request fails; then both spinners stop
NarrativeLoaded ==
    /\ \E l \in corr.loads :
       \E n \in {[source |-> "backend", about |-> <<>>],
                 [source |-> "simple", about |-> generateSimpleNarrative(l.found)]} :
          /\ l.phase = "narrating"
          /\ corr' = [corr EXCEPT !.narrative = n,
                                  !.narrativeLoading = FALSE,
                                  !.loading = FALSE,
                                  !.loads = @ \ {l}]
    /\ UNCHANGED <<storeVars, run, syncVars, nav, bench, viewVars>>

\* the dashboard mounted with some days prop, for a user without stored days
\* or with a few: its effect has called loadDashboardData
RecentDays == 5         \* stored days of the user who has any

InitDashboard ==
    /\ \E days \in {{}, (Today - RecentDays + 1)..Today} :
          health_data = {SynthRow(UserId, d) : d \in days}
    /\ correlations_tbl = EmptyBag /\ anomalies_tbl = EmptyBag
    /\ patterns_tbl = EmptyBag
    /\ run = <<>>
    /\ hook = <<>> /\ dash = <<>> /\ home = <<>> /\ net = <<>> /\ device = <<>>
    /\ nav = <<>> /\ bench = <<>>
    /\ insights = <<>> /\ analytics = <<>> /\ wire = <<>>
    /\ \E prop \in DaysProps :
          LET days == IF prop = Undefined_ THEN DefaultDays30 ELSE prop
          IN corr = loadDashboardDataStart(
                        [days |-> days, loading |-> TRUE, healthData |-> <<>>,
                         correlations |-> <<>>,
                         narrative |-> [source |-> "", about |-> <<>>],
                         narrativeLoading |-> FALSE, loads |-> {}], days)

NextDashboard ==
    \/ ChangeDays
    \/ DashboardFetched
    \/ NarrativeLoaded

SpecDashboard == InitDashboard /\ [][NextDashboard]_vars

\* C21: every correlations request issued by CorrelatedDashboard asks for
\* max(days, 30) days, so for at least 30, whatever the days prop; the history
\* request asks for the prop's days.
C21_CorrelationsAskForAtLeast30Days ==
    \A l \in corr.loads :
        /\ l.correlations.method = "GET"
        /\ l.correlations.path[Len(l.correlations.path)] = "correlations"
        /\ l.correlations.query["days"] >= 30
        /\ l.correlations.query["days"] = (IF l.days > 30 THEN l.days ELSE 30)
        /\ l.history.query["days"] = l.days

\* a dashboard rendered for a week: its correlations request asks for 30 days
C21_Witness ==
    \E l \in corr.loads :
        /\ l.phase = "fetching"
        /\ corr.days = 7 /\ l.days = 7
        /\ l.history.query["days"] = 7
        /\ l.correlations.query["days"] = 30

(***************************************************************************)
(* The HealthKit hook's spinner (SpecSyncLive)                             *)
(***************************************************************************)
\* the HealthKit calls return: an authorization or an initial fetch that has
\* been started is answered
SpecSyncLive ==
    /\ SpecSync
    /\ \A h \in Components : WF_vars(AuthorizeDone(h)) /\ WF_vars(InitFetchDone(h))

\* C22: after the HealthKit hook mounts, isLoading eventually becomes false:
\* off iOS, when HealthKit is unavailable or authorization fails, and after a
\* successful authorization whether the fetch succeeds or throws.
C22_LoadingEventuallyStops ==
    \A h \in Components : <>(hook[h].init = "done" /\ ~hook[h].isLoading)

\* on iOS, authorized, the initial fetch over and the spinner stopped
C22_Witness ==
    /\ device.platform = "ios"
    /\ \A h \in Components :
          /\ hook[h].isAuthorized
          /\ hook[h].init = "done"
          /\ ~hook[h].isLoading

(***************************************************************************)
(* Claims about overlapping and repeated syncs (SpecSync)                  *)
(***************************************************************************)
\* syncToSupabase of a hook instance is between its start and its finally
InSync(h) == hook[h].sync \in {"fetching", "awaitToday", "awaitSleep", "finally"}

\* C23: at no time are two syncToSupabase executions in progress for the same
\* user: the automatic sync of HealthDashboard and the manual sync of the home
\* screen's button never overlap.
C23_NoOverlappingSyncs ==
    ~(InSync("dash") /\ InSync("home"))

\* C24: after an automatic sync of the mounted HealthDashboard has succeeded,
\* the dashboard starts no further automatic sync on the same calendar day,
\* whatever the interleaving of the sync with the new-day check.
C24_OneAutoSyncPerDay ==
    dash.sinceSuccess # "synced again"

\* The steps that need no user action: both screens' hooks initialise on
\* mount, the dashboard's effect and new-day check run, the dashboard's sync
\* goes through its awaits and the backend answers it. The home screen's
\* sync button is never pressed.
NextAutoSync ==
    \/ \E h \in Components :
          \/ AuthorizeDone(h)
          \/ InitFetchDone(h)
    \/ SyncFetchDone("dash")
    \/ SyncTodayDone("dash")
    \/ SyncSleepDone("dash")
    \/ SyncFinally("dash")
    \/ DashAutoSync
    \/ DashContinue
    \/ CheckNewDay
    \/ ServerHandle("dash")

\* every pending promise settles and every due effect runs
SpecSyncFair ==
    /\ InitSync /\ [][NextAutoSync]_vars
    /\ \A h \in Components : WF_vars(AuthorizeDone(h)) /\ WF_vars(InitFetchDone(h))
    /\ WF_vars(DashAutoSync) /\ WF_vars(DashContinue)
    /\ WF_vars(SyncFetchDone("dash")) /\ WF_vars(SyncTodayDone("dash"))
    /\ WF_vars(SyncSleepDone("dash")) /\ WF_vars(SyncFinally("dash"))
    /\ WF_vars(ServerHandle("dash"))

\* C25: if the backend's sync requests keep failing, HealthDashboard does not
\* retry without bound: within one calendar day only finitely many automatic
\* sync attempts are started, so from some point on none is in progress.
C25_AutoSyncAttemptsAreFinite ==
    <>[](~InSync("dash"))

====
